---- MODULE Spec2Model ----
(***************************************************************************)
(* Model of the backup orchestrator of go-tangra-backup: the artifact      *)
(* store (internal/service/storage.go), the password envelope (crypto),    *)
(* the module RPC client and the orchestration engine                      *)
(* (internal/service/orchestrator_service.go).                             *)
(*                                                                         *)
(* Errors are sequences of message segments, outermost first: wrapping an  *)
(* error with fmt.Errorf("prefix: %w", err) prepends a segment.  <<>> is   *)
(* the nil error.  File contents are records tagged by kind.               *)
(***************************************************************************)
EXTENDS Integers, Sequences, FiniteSets, TLC

\* ------------------------------------------------------------------ bounds
\* Number of backup ids uuid.New() may mint in one behaviour.
MaxBackups == 2
\* Longest target list of a CreateFullBackup request.
MaxTargets == 2

\* ------------------------------------------------------------------ inputs
ModuleIds == {"A", "B"}
Passwords == {"", "pw"}
\* Passwords a reader may supply: those of a creation and one given to none.
ReadPasswords == Passwords \cup {"other"}
\* Payloads a module may return from ExportBackup (byte sequences).
Payloads == {<<7>>, <<7, 8>>}
\* Values crypto/rand may produce for the salt.
Salts == {"s1"}
BackupIds == 1..MaxBackups
\* Readings of time.Now() at the start of a create call.
Times == {1, 2}
\* Tenant ids a request or a module's response may carry; 0 is the
\* tenant-agnostic value.
TenantIds == {0, 5}
\* An optional tenant id (*uint32): nil, or a value.
NilTenant == [nil |-> TRUE, value |-> 0]
SomeTenant(v) == [nil |-> FALSE, value |-> v]
OptionalTenants == {NilTenant} \cup {SomeTenant(v) : v \in TenantIds}
tenantIDValue(tid) == IF tid.nil THEN 0 ELSE tid.value
\* req.TenantId != nil && *req.TenantId == 0
FullBackupFlag(tid) == ~tid.nil /\ tid.value = 0

\* ------------------------------------------------------------------ errors
NoErr == <<>>

Wrap(prefix, err) == <<prefix>> \o err

ErrPasswordRequired == <<"backup is encrypted: password required">>

IsPasswordRequired(err) ==
    /\ err # NoErr
    /\ err[Len(err)] = "backup is encrypted: password required"

ErrDecryptionFailed == <<"decryption failed (wrong password or corrupted data)">>

IsBadPassword(err) ==
    /\ err # NoErr
    /\ err[Len(err)] = ErrDecryptionFailed[1]

\* ------------------------------------------------------------------ codec
gzipCompress(data) == [kind |-> "gzip", data |-> data]

\* [err, data]: gzip.NewReader rejects anything that is not a gzip stream.
gzipDecompress(c) ==
    IF c.kind = "gzip"
    THEN [err |-> NoErr, data |-> c.data]
    ELSE [err |-> <<"gzip: invalid header">>, data |-> <<>>]

\* pbkdf2.Key(sha256.New, password, salt, ...): injective in (password, salt).
DeriveKey(password, salt) == <<password, salt>>

\* salt || nonce || ciphertext+tag; the sealed box opens only under its key.
encryptData(data, password, salt) ==
    [kind |-> "enc", salt |-> salt, key |-> DeriveKey(password, salt), sealed |-> data]

\* Mutant: the box opens under any key (no authentication tag).
DecryptDataUnauthenticated(encrypted, password) ==
    IF encrypted.kind # "enc"
    THEN [err |-> <<"encrypted data too short">>, data |-> <<>>]
    ELSE [err |-> NoErr, data |-> encrypted.sealed]

\* [err, data]: a truncated envelope is too short or fails the GCM tag.
DecryptData(encrypted, password) ==
    IF encrypted.kind # "enc"
    THEN [err |-> <<"encrypted data too short">>, data |-> <<>>]
    ELSE IF DeriveKey(password, encrypted.salt) # encrypted.key
    THEN [err |-> ErrDecryptionFailed, data |-> <<>>]
    ELSE [err |-> NoErr, data |-> encrypted.sealed]

\* protojson.MarshalOptions{EmitUnpopulated}.Marshal: the canonical text of msg.
MarshalProtoJSON(msg) == [kind |-> "protojson", msg |-> msg]

\* A file cut short by a failed write.
TornFile == [kind |-> "torn"]

\* ---- metadata text, key by key
\* A metadata file whose text is followed key by key is [kind |-> "text",
\* tokens |-> <<...>>]; a token is one "key": value pair of the object, or a
\* stretch that is not JSON (form "garbage", as a cut-off file ends).
\* var info backupV1.BackupInfo
ZeroBackupInfo ==
    [Id |-> 0, ModuleId |-> "", Status |-> "unspecified", SizeBytes |-> 0,
     Encrypted |-> FALSE, Warnings |-> <<>>, CreatedAt |-> 0,
     TenantId |-> 0, FullBackup |-> FALSE]

\* The names protojson accepts for a field: the camelCase JSON name and the
\* proto name.
CanonicalField(key) ==
    CASE key = "id" -> "Id"
      [] key \in {"moduleId", "module_id"} -> "ModuleId"
      [] key \in {"createdAt", "created_at"} -> "CreatedAt"
      [] OTHER -> ""

\* The names encoding/json accepts: the struct tags, which are the proto names.
LegacyField(key) ==
    CASE key = "id" -> "Id"
      [] key = "module_id" -> "ModuleId"
      [] key = "created_at" -> "CreatedAt"
      [] OTHER -> ""

\* The value form a parser takes for a field: a timestamp is an RFC3339
\* string for protojson and a {seconds, nanos} object for encoding/json.
CanonicalForm(field) == IF field = "CreatedAt" THEN "rfc3339" ELSE "scalar"

LegacyForm(field) == IF field = "CreatedAt" THEN "object" ELSE "scalar"

\* protojson reads the object key by key into the message and stops at the
\* first key it rejects; what it set before stays set.
protojsonToken(acc, tok) ==
    LET f == CanonicalField(tok.key)
    IN  IF acc.err # NoErr THEN acc
        ELSE IF tok.form = "garbage"
        THEN [acc EXCEPT !.err = <<"proto: syntax error">>]
        ELSE IF f = ""
        THEN [acc EXCEPT !.err = <<"proto: unknown field">>]
        ELSE IF f \in acc.seen
        THEN [acc EXCEPT !.err = <<"proto: duplicate field">>]
        ELSE IF tok.form # CanonicalForm(f)
        THEN [acc EXCEPT !.err = <<"proto: invalid value">>]
        ELSE [acc EXCEPT !.msg[f] = tok.val, !.seen = @ \cup {f}]

RECURSIVE protojsonFold(_, _, _)
protojsonFold(tokens, msg, n) ==
    IF n = 0 THEN [err |-> NoErr, msg |-> msg, seen |-> {}]
    ELSE protojsonToken(protojsonFold(tokens, msg, n - 1), tokens[n])

\* protojson.Unmarshal(data, msg): [err, msg]; it clears msg before it reads.
protojsonUnmarshal(tokens, msg) ==
    LET out == protojsonFold(tokens, ZeroBackupInfo, Len(tokens))
    IN  [err |-> out.err, msg |-> out.msg]

\* encoding/json skips a key that no struct tag names, remembers the first
\* value of the wrong type and goes on with the next key.
jsonToken(acc, tok) ==
    LET f == LegacyField(tok.key)
    IN  IF f = "" THEN acc
        ELSE IF tok.form # LegacyForm(f)
        THEN IF acc.err # NoErr THEN acc
             ELSE [acc EXCEPT !.err = <<"json: cannot unmarshal">>]
        ELSE [acc EXCEPT !.msg[f] = tok.val]

RECURSIVE jsonFold(_, _, _)
jsonFold(tokens, msg, n) ==
    IF n = 0 THEN [err |-> NoErr, msg |-> msg]
    ELSE jsonToken(jsonFold(tokens, msg, n - 1), tokens[n])

\* json.Unmarshal(data, msg): [err, msg]; the text is checked for syntax as a
\* whole before any field is stored, and msg is filled in as it is.
jsonUnmarshal(tokens, msg) ==
    IF \E i \in 1..Len(tokens) : tokens[i].form = "garbage"
    THEN [err |-> <<"json: syntax error">>, msg |-> msg]
    ELSE jsonFold(tokens, msg, Len(tokens))

\* Mutant: the message keeps what the failed canonical attempt stored.
protoResetSkipped(msg) == msg

\* proto.Reset(msg)
protoReset(msg) == ZeroBackupInfo

\* The second attempt of unmarshalWithFallback: json.Unmarshal on the message
\* that proto.Reset left, its error wrapped when it fails too.
legacyAttempt(first, second) ==
    IF second.err # NoErr
    THEN [err |-> Wrap("unmarshal (both protojson and json failed)", second.err),
          msg |-> second.msg, attempts |-> <<"protojson", "json">>,
          canonical |-> first]
    ELSE [err |-> NoErr, msg |-> second.msg, attempts |-> <<"protojson", "json">>,
          canonical |-> first]

\* The first attempt of unmarshalWithFallback: the outcome of
\* protojson.Unmarshal is returned when it succeeded, else the message is
\* reset and the legacy parser runs.
canonicalAttempt(tokens, first) ==
    IF first.err = NoErr
    THEN [err |-> NoErr, msg |-> first.msg, attempts |-> <<"protojson">>,
          canonical |-> first]
    ELSE legacyAttempt(first, jsonUnmarshal(tokens, protoReset(first.msg)))

\* unmarshalWithFallback on a text followed key by key: [err, msg, attempts,
\* canonical], where attempts lists the parsers that ran and canonical is the
\* outcome of the first one.
unmarshalText(tokens, msg) ==
    canonicalAttempt(tokens, protojsonUnmarshal(tokens, msg))

\* [err, msg]: canonical parse first, then proto.Reset and the legacy parse.
\* A file of kind "protojson" or "json" is the well-formed canonical or legacy
\* text of its message.
unmarshalWithFallback(bytes) ==
    IF bytes.kind = "protojson"
    THEN [err |-> NoErr, msg |-> bytes.msg]
    ELSE IF bytes.kind = "json"
    THEN [err |-> NoErr, msg |-> bytes.msg]
    ELSE IF bytes.kind = "text"
    THEN LET out == unmarshalText(bytes.tokens, ZeroBackupInfo)
         IN  [err |-> out.err, msg |-> IF out.err = NoErr THEN out.msg ELSE <<>>]
    ELSE [err |-> <<"unmarshal (both protojson and json failed)">>, msg |-> <<>>]

\* ------------------------------------------------------------------ filesystem
\* A directory: whether it exists and its files (name -> content).
NoDir == [exists |-> FALSE, files |-> <<>>]

MkdirAll(dir) == IF dir.exists THEN dir ELSE [exists |-> TRUE, files |-> <<>>]

HasFile(dir, name) == dir.exists /\ name \in DOMAIN dir.files

WriteFile(dir, name, content) ==
    [dir EXCEPT !.files = (name :> content) @@ dir.files]

\* os.WriteFile returning an error: the file could not be opened (nothing
\* changes) or the write stopped part-way (a truncated file is left).
FailedWrite(dir, name, torn) ==
    IF torn THEN WriteFile(dir, name, TornFile) ELSE dir

\* ------------------------------------------------------------------ store: module backups
\* What can go wrong inside a save: which step returns an error, and for a
\* failed file write whether it leaves a truncated file behind.
NoFault == [at |-> "none", torn |-> FALSE]

SaveModuleFaults(password) ==
    {NoFault, [at |-> "mkdir", torn |-> FALSE]}
    \cup (IF password # "" THEN {[at |-> "encrypt", torn |-> FALSE]} ELSE {})
    \cup {[at |-> a, torn |-> t] : a \in {"metadata", "payload"}, t \in BOOLEAN}

\* Mutant: the payload keeps the plain file name when it is encrypted.
ModulePayloadNamePlain(encrypted) == "data.json.gz"

ModulePayloadName(encrypted) ==
    IF encrypted THEN "data.json.gz.enc" ELSE "data.json.gz"

\* [store, err, info]: info is the caller's record, which the save mutates
\* (info.Encrypted = true) before it marshals it.
SaveModuleBackup(store, info, data, password, salt, fault) ==
    LET id == info.Id
        compressed == gzipCompress(data)
        enc == password # ""
        filename == ModulePayloadName(enc)
        payload == IF enc THEN encryptData(compressed, password, salt) ELSE compressed
        info2 == IF enc THEN [info EXCEPT !.Encrypted = TRUE] ELSE info
        d0 == MkdirAll(store[id])
        d1 == WriteFile(d0, "metadata.json", MarshalProtoJSON(info2))
        d2 == WriteFile(d1, filename, payload)
    IN  CASE fault.at = "mkdir" ->
               [store |-> store, err |-> <<"create backup dir">>, info |-> info]
          [] fault.at = "encrypt" /\ enc ->
               [store |-> [store EXCEPT ![id] = d0],
                err |-> <<"encrypt data", "generate salt">>, info |-> info]
          [] fault.at = "metadata" ->
               [store |-> [store EXCEPT ![id] = FailedWrite(d0, "metadata.json", fault.torn)],
                err |-> <<"write metadata">>, info |-> info2]
          [] fault.at = "payload" ->
               [store |-> [store EXCEPT ![id] = FailedWrite(d1, filename, fault.torn)],
                err |-> <<"write data">>, info |-> info2]
          [] OTHER ->
               [store |-> [store EXCEPT ![id] = d2], err |-> NoErr, info |-> info2]

\* The decrypt-then-decompress tail shared by the two load operations.
\* [err, data, decrypted]: decrypted records that DecryptData was called.
OpenEncrypted(file, password, prefix) ==
    LET dec == DecryptData(file, password)
        unz == gzipDecompress(dec.data)
    IN  IF dec.err # NoErr
        THEN [err |-> Wrap(prefix, dec.err), data |-> <<>>, decrypted |-> TRUE]
        ELSE [err |-> unz.err, data |-> unz.data, decrypted |-> TRUE]

OpenPlain(file) ==
    LET unz == gzipDecompress(file)
    IN  [err |-> unz.err, data |-> unz.data, decrypted |-> FALSE]

\* Mutant: no empty-password check before the envelope is opened.
LoadModuleBackupDataUnchecked(store, backupID, password) ==
    LET dir == store[backupID]
        encPath == "data.json.gz.enc"
        plainPath == "data.json.gz"
    IN  IF HasFile(dir, encPath)
        THEN OpenEncrypted(dir.files[encPath], password, "decrypt backup data")
        ELSE IF ~HasFile(dir, plainPath)
        THEN [err |-> <<"read backup data">>, data |-> <<>>, decrypted |-> FALSE]
        ELSE OpenPlain(dir.files[plainPath])

LoadModuleBackupData(store, backupID, password) ==
    LET dir == store[backupID]
        encPath == "data.json.gz.enc"
        plainPath == "data.json.gz"
    IN  IF HasFile(dir, encPath)
        THEN IF password = ""
             THEN [err |-> ErrPasswordRequired, data |-> <<>>, decrypted |-> FALSE]
             ELSE OpenEncrypted(dir.files[encPath], password, "decrypt backup data")
        ELSE IF ~HasFile(dir, plainPath)
        THEN [err |-> <<"read backup data">>, data |-> <<>>, decrypted |-> FALSE]
        ELSE OpenPlain(dir.files[plainPath])

\* [err, info]
readMetadata(dir, readPrefix, parsePrefix) ==
    IF ~HasFile(dir, "metadata.json")
    THEN [err |-> <<readPrefix>>, info |-> <<>>]
    ELSE LET u == unmarshalWithFallback(dir.files["metadata.json"])
         IN  IF u.err # NoErr
             THEN [err |-> Wrap(parsePrefix, u.err), info |-> <<>>]
             ELSE [err |-> NoErr, info |-> u.msg]

readModuleMetadata(store, backupID) ==
    readMetadata(store[backupID], "read metadata", "unmarshal metadata")

GetModuleBackup(store, backupID) == readModuleMetadata(store, backupID)

\* The records the list loop collects: every directory whose metadata reads,
\* kept when it passes the module filter ("" keeps all).
\* One pass of the insertion sort sort.Slice runs on a slice of at most 12
\* elements: x, appended last, moves left while it is strictly newer than its
\* left neighbour (less is ti.After(tj)).
InsertByCreatedAt(sorted, x) ==
    LET k == Cardinality({i \in 1..Len(sorted) : sorted[i].CreatedAt >= x.CreatedAt})
    IN  SubSeq(sorted, 1, k) \o <<x>> \o SubSeq(sorted, k + 1, Len(sorted))

\* Mutant: the listing is left in directory order.
SortSkipped(backups) == backups

RECURSIVE SortByCreatedAtDesc(_)
\* sort.Slice(backups, newest first)
SortByCreatedAtDesc(backups) ==
    IF Len(backups) <= 1
    THEN backups
    ELSE InsertByCreatedAt(SortByCreatedAtDesc(SubSeq(backups, 1, Len(backups) - 1)),
                           backups[Len(backups)])

\* os.ReadDir: the directory entries, sorted by name.
ReadDir(store) ==
    LET IsDir(i) == store[i].exists
    IN  SelectSeq([i \in DOMAIN store |-> i], IsDir)

\* Mutant: a nil tenant filter is read as tenant 0.
TenantMatchesNilAsZero(tenantID, info) == info.TenantId = tenantIDValue(tenantID)

\* tenantID != nil && info.TenantId != *tenantID skips the record
TenantMatches(tenantID, info) == tenantID.nil \/ info.TenantId = tenantID.value

\* [err, backups]: the readable records of one module (of all when moduleID
\* is empty) and of one tenant (of all when tenantID is nil), newest first.
\* readDirErr is a ReadDir failure other than a missing directory; a missing
\* directory lists like an empty one.
ListModuleBackups(store, moduleID, tenantID, readDirErr) ==
    LET Keep(i) == /\ readModuleMetadata(store, i).err = NoErr
                   /\ (moduleID = "" \/ readModuleMetadata(store, i).info.ModuleId = moduleID)
                   /\ TenantMatches(tenantID, readModuleMetadata(store, i).info)
        kept == SelectSeq(ReadDir(store), Keep)
        backups == [k \in 1..Len(kept) |-> readModuleMetadata(store, kept[k]).info]
    IN  IF readDirErr
        THEN [err |-> <<"read modules dir">>, backups |-> <<>>]
        ELSE [err |-> NoErr, backups |-> SortByCreatedAtDesc(backups)]

\* [store, err]
\* Mutant: the delete removes the metadata and leaves the rest of the directory.
DeleteModuleBackupMetadataOnly(store, backupID) ==
    IF ~store[backupID].exists
    THEN [store |-> store, err |-> <<"backup not found">>]
    ELSE [store |-> [store EXCEPT ![backupID].files =
                        [n \in DOMAIN @ \ {"metadata.json"} |-> @[n]]],
          err |-> NoErr]

\* Mutant: deleting a missing backup succeeds.
DeleteModuleBackupIdempotent(store, backupID) ==
    [store |-> [store EXCEPT ![backupID] = NoDir], err |-> NoErr]

DeleteModuleBackup(store, backupID) ==
    IF ~store[backupID].exists
    THEN [store |-> store, err |-> <<"backup not found">>]
    ELSE [store |-> [store EXCEPT ![backupID] = NoDir], err |-> NoErr]

\* ------------------------------------------------------------------ store: full backups
FullPayloadName(moduleID, encrypted) ==
    moduleID \o (IF encrypted THEN ".json.gz.enc" ELSE ".json.gz")

\* Faults of SaveFullBackup.  The payload loop ranges over a Go map, so the
\* modules written before the failing one are an arbitrary subset of the rest.
SaveFullFaults(moduleData, password) ==
    {[at |-> a, torn |-> FALSE, failing |-> "", written |-> {}] : a \in {"none", "mkdir"}}
    \cup {[at |-> "manifest", torn |-> t, failing |-> "", written |-> {}] : t \in BOOLEAN}
    \cup UNION {{[at |-> "payload", torn |-> t, failing |-> m, written |-> w] :
                    t \in BOOLEAN, w \in SUBSET (DOMAIN moduleData \ {m})} :
                m \in DOMAIN moduleData}
    \cup (IF password = "" THEN {} ELSE
          UNION {{[at |-> "encrypt", torn |-> FALSE, failing |-> m, written |-> w] :
                    w \in SUBSET (DOMAIN moduleData \ {m})} :
                 m \in DOMAIN moduleData})

FullPayload(data, password, salt) ==
    IF password # ""
    THEN encryptData(gzipCompress(data), password, salt)
    ELSE gzipCompress(data)

\* The directory after the payload loop has written the modules of `mods`.
WritePayloads(dir, mods, moduleData, password, salts) ==
    LET enc == password # ""
        names == {FullPayloadName(m, enc) : m \in mods}
        modOf(name) == CHOOSE m \in mods : FullPayloadName(m, enc) = name
    IN  [dir EXCEPT !.files =
            [n \in names |-> FullPayload(moduleData[modOf(n)], password, salts[modOf(n)])]
            @@ dir.files]

\* [store, err, info]
SaveFullBackup(store, info, moduleData, password, salts, fault) ==
    LET id == info.Id
        enc == password # ""
        info2 == IF enc THEN [info EXCEPT !.Encrypted = TRUE] ELSE info
        d0 == MkdirAll(store[id])
        dPart == WritePayloads(d0, fault.written, moduleData, password, salts)
        dAll == WritePayloads(d0, DOMAIN moduleData, moduleData, password, salts)
        d2 == WriteFile(dAll, "metadata.json", MarshalProtoJSON(info2))
    IN  CASE fault.at = "mkdir" ->
               [store |-> store, err |-> <<"create full backup dir">>, info |-> info]
          [] fault.at = "encrypt" ->
               [store |-> [store EXCEPT ![id] = dPart],
                err |-> <<"encrypt data", fault.failing, "generate salt">>, info |-> info2]
          [] fault.at = "payload" ->
               [store |-> [store EXCEPT ![id] =
                    FailedWrite(dPart, FullPayloadName(fault.failing, enc), fault.torn)],
                err |-> <<"write data", fault.failing>>, info |-> info2]
          [] fault.at = "manifest" ->
               [store |-> [store EXCEPT ![id] = FailedWrite(dAll, "metadata.json", fault.torn)],
                err |-> <<"write manifest">>, info |-> info2]
          [] OTHER ->
               [store |-> [store EXCEPT ![id] = d2], err |-> NoErr, info |-> info2]

LoadFullBackupModuleData(store, backupID, moduleID, password) ==
    LET dir == store[backupID]
        encPath == FullPayloadName(moduleID, TRUE)
        plainPath == FullPayloadName(moduleID, FALSE)
    IN  IF HasFile(dir, encPath)
        THEN IF password = ""
             THEN [err |-> ErrPasswordRequired, data |-> <<>>, decrypted |-> FALSE]
             ELSE OpenEncrypted(dir.files[encPath], password, "decrypt module data")
        ELSE IF ~HasFile(dir, plainPath)
        THEN [err |-> <<"read module data">>, data |-> <<>>, decrypted |-> FALSE]
        ELSE OpenPlain(dir.files[plainPath])

readFullMetadata(store, backupID) ==
    readMetadata(store[backupID], "read manifest", "unmarshal manifest")

GetFullBackup(store, backupID) == readFullMetadata(store, backupID)

\* [err, backups]: the readable manifests of one tenant (of all when tenantID
\* is nil), newest first.
ListFullBackups(store, tenantID, readDirErr) ==
    LET Keep(i) == /\ readFullMetadata(store, i).err = NoErr
                   /\ TenantMatches(tenantID, readFullMetadata(store, i).info)
        kept == SelectSeq(ReadDir(store), Keep)
        backups == [k \in 1..Len(kept) |-> readFullMetadata(store, kept[k]).info]
    IN  IF readDirErr
        THEN [err |-> <<"read full dir">>, backups |-> <<>>]
        ELSE [err |-> NoErr, backups |-> SortByCreatedAtDesc(backups)]

\* [store, err]
DeleteFullBackup(store, backupID) ==
    IF ~store[backupID].exists
    THEN [store |-> store, err |-> <<"full backup not found">>]
    ELSE [store |-> [store EXCEPT ![backupID] = NoDir], err |-> NoErr]

\* ------------------------------------------------------------------ module RPC client
Targets == {[ModuleId |-> m, GrpcEndpoint |-> m \o ":7000"] : m \in ModuleIds}

\* A request without a target (req.Target == nil).
NilTarget == [ModuleId |-> "", GrpcEndpoint |-> ""]

\* What the network and the module do with one ExportBackup call, for modules
\* whose responses name a tenant of tenants.
ExportEnvsOf(tenants) ==
    {[dialErr |-> TRUE, invokeErr |-> FALSE, data |-> <<>>, tenantId |-> 0],
     [dialErr |-> FALSE, invokeErr |-> TRUE, data |-> <<>>, tenantId |-> 0]}
    \cup {[dialErr |-> FALSE, invokeErr |-> FALSE, data |-> d, tenantId |-> t] :
            d \in Payloads, t \in tenants}

\* The calls of a platform whose modules answer for the tenant-agnostic tenant.
ExportEnvs == ExportEnvsOf({0})

\* [err, data, tenantId]: data and tenantId are ExportResult.Data and
\* ExportResult.TenantID, taken from the module's response; the request's
\* tenant id travels to the module and is not read again.
ExportBackup(target, env) ==
    IF env.dialErr
    THEN [err |-> <<"dial " \o target.ModuleId, "connect">>, data |-> <<>>, tenantId |-> 0]
    ELSE IF env.invokeErr
    THEN [err |-> <<"invoke ExportBackup on " \o target.ModuleId, "rpc error">>,
          data |-> <<>>, tenantId |-> 0]
    ELSE [err |-> NoErr, data |-> env.data, tenantId |-> env.tenantId]

\* What the network and the module do with one ImportBackup call; success is
\* ModuleImportResponse.Success.
ImportEnvs ==
    {[dialErr |-> TRUE, invokeErr |-> FALSE, success |-> FALSE],
     [dialErr |-> FALSE, invokeErr |-> TRUE, success |-> FALSE]}
    \cup {[dialErr |-> FALSE, invokeErr |-> FALSE, success |-> b] : b \in BOOLEAN}

\* [err, resp]
ImportBackup(target, data, env) ==
    IF env.dialErr
    THEN [err |-> <<"dial " \o target.ModuleId, "connect">>, resp |-> [Success |-> FALSE]]
    ELSE IF env.invokeErr
    THEN [err |-> <<"invoke ImportBackup on " \o target.ModuleId, "rpc error">>,
          resp |-> [Success |-> FALSE]]
    ELSE [err |-> NoErr, resp |-> [Success |-> env.success]]

\* One ImportBackup call as the module saw it, with its outcome.
ImportCall(target, data, imp) ==
    [target |-> target, data |-> data, err |-> imp.err, success |-> imp.resp.Success]

\* ------------------------------------------------------------------ state
VARIABLES
    modules,   \* modules/<id>: [BackupIds -> directory]
    full,      \* full/<id>:    [BackupIds -> directory]
    nextId,    \* ids minted so far are 1..nextId-1 (uuid.New never repeats)
    cfb,       \* the CreateFullBackup call in flight, if any
    ret,       \* request and response of the call that returned last
    saved,     \* history: what each successful save was given, until deleted
    run        \* the steps of the calls that are followed statement by statement

vars == <<modules, full, nextId, cfb, ret, saved, run>>

\* No RestoreFullBackup call is being followed.
IdleRfb == [pc |-> "idle"]

\* The client calls that are followed statement by statement, each served by
\* a goroutine of its own.
Procs == {"p", "q"}

\* A call that has not been made.  held is the mode in which the call holds
\* the store's mutex, err and data the results of its latest statement, tasks
\* its module calls that have not returned to it, ended those that have, and
\* ok whether each of its module calls succeeded.
IdleProc ==
    [op |-> "none", id |-> 0, pc |-> 0, held |-> "none", err |-> NoErr, data |-> <<>>,
     entries |-> <<>>, tasks |-> <<>>, ended |-> <<>>, ok |-> <<>>]

\* sync.RWMutex, unlocked.
FreeMutex == [writer |-> "", readers |-> {}]

\* Nothing is being followed statement by statement.
IdleRun == [rfb |-> IdleRfb, mu |-> FreeMutex, procs |-> [p \in Procs |-> IdleProc]]

\* Calls are issued one at a time by a client that waits for each response
\* (ret is empty while a call is in flight); the concurrency inside a call is
\* the export fan-out of CreateFullBackup.  Every store operation holds
\* BackupStorage.mu for its whole body and the export tasks touch only the
\* call's own results slice, so a store operation that runs during the fan-out
\* acts as it would before CreateFullBackupStart.

NoSaved == [kind |-> "none", password |-> "", data |-> <<>>]

\* Mutant: the id of the first call is handed out again.
uuidNewReused(next) == 1

\* uuid.New(): an id no earlier call was given.
uuidNew(next) == next

NilResp == [Backup |-> <<>>]

\* The BackupInfo fields the claims read: description, tenant, entity counts
\* and version are carried through unchanged by the store.  CreatedAt 0 is the
\* nil timestamp (the Unix epoch under AsTime).
BackupInfo(id, moduleId, status, size, warnings) ==
    [Id |-> id, ModuleId |-> moduleId, Status |-> status, SizeBytes |-> size,
     Encrypted |-> FALSE, Warnings |-> warnings, CreatedAt |-> 0,
     TenantId |-> 0, FullBackup |-> FALSE]

\* CreatedAt: timestamppb.New(now)
Stamped(info, now) == [info EXCEPT !.CreatedAt = now]

\* TenantId: ..., FullBackup: ... of a BackupInfo or FullBackupInfo literal
Tenanted(info, tenantId, fullBackup) ==
    [info EXCEPT !.TenantId = tenantId, !.FullBackup = fullBackup]

CreateModuleBackupRequestsOf(tenants) ==
    {[Target |-> t, Password |-> p, TenantId |-> tid] :
        t \in Targets \cup {NilTarget}, p \in Passwords, tid \in tenants}

\* The requests of a client that names no tenant.
CreateModuleBackupRequests == CreateModuleBackupRequestsOf({NilTenant})

\* ------------------------------------------------------------------ CreateModuleBackup
\* Mutant: a failed export is returned as the call's error.
CreateModuleBackupFailFast(store, req, next, now, env, salt, fault) ==
    LET result == ExportBackup(req.Target, env)
        backupID == uuidNew(next)
        info == Tenanted(Stamped(BackupInfo(backupID, req.Target.ModuleId, "completed",
                                            Len(result.data), <<>>), now),
                         result.tenantId, FullBackupFlag(req.TenantId))
        save == SaveModuleBackup(store, info, result.data, req.Password, salt, fault)
    IN  IF req.Target = NilTarget
        THEN [store |-> store, err |-> <<"target is required">>, resp |-> NilResp,
              minted |-> FALSE]
        ELSE IF result.err # NoErr
        THEN [store |-> store, err |-> Wrap("export backup", result.err),
              resp |-> NilResp, minted |-> FALSE]
        ELSE IF save.err # NoErr
        THEN [store |-> save.store, err |-> Wrap("save backup", save.err),
              resp |-> NilResp, minted |-> TRUE]
        ELSE [store |-> save.store, err |-> NoErr, resp |-> [Backup |-> save.info],
              minted |-> TRUE]

\* [store, err, resp, minted]
CreateModuleBackupHandler(store, req, next, now, env, salt, fault) ==
    LET result == ExportBackup(req.Target, env)
        backupID == uuidNew(next)
        failedInfo == Tenanted(Stamped(BackupInfo(backupID, req.Target.ModuleId, "failed",
                                                  0, <<result.err>>), now),
                               tenantIDValue(req.TenantId), FullBackupFlag(req.TenantId))
        info == Tenanted(Stamped(BackupInfo(backupID, req.Target.ModuleId, "completed",
                                            Len(result.data), <<>>), now),
                         result.tenantId, FullBackupFlag(req.TenantId))
        save == SaveModuleBackup(store, info, result.data, req.Password, salt, fault)
    IN  IF req.Target = NilTarget
        THEN [store |-> store, err |-> <<"target is required">>, resp |-> NilResp,
              minted |-> FALSE]
        ELSE IF result.err # NoErr
        THEN [store |-> store, err |-> NoErr, resp |-> [Backup |-> failedInfo],
              minted |-> TRUE]
        ELSE IF save.err # NoErr
        THEN [store |-> save.store, err |-> Wrap("save backup", save.err),
              resp |-> NilResp, minted |-> TRUE]
        ELSE [store |-> save.store, err |-> NoErr, resp |-> [Backup |-> save.info],
              minted |-> TRUE]

\* The handler, called with a request of requests while the modules answer
\* as in envs.
CreateModuleBackupFrom(requests, envs) ==
    /\ cfb.pc = "idle"
    /\ UNCHANGED run
    /\ nextId <= MaxBackups
    /\ \E req \in requests, now \in Times, env \in envs :
       LET exported == IF req.Target = NilTarget
                       THEN [err |-> NoErr, data |-> <<>>, tenantId |-> 0]
                       ELSE ExportBackup(req.Target, env)
           saves == req.Target # NilTarget /\ exported.err = NoErr
       IN  \* the save, its salt and its faults exist only after a successful export
           \E salt \in Salts,
              fault \in IF saves THEN SaveModuleFaults(req.Password) ELSE {NoFault} :
              LET out == CreateModuleBackupHandler(modules, req, nextId, now, env, salt, fault)
              IN  /\ modules' = out.store
                  /\ nextId' = IF out.minted THEN nextId + 1 ELSE nextId
                  /\ ret' = [op |-> "CreateModuleBackup", req |-> req,
                             called |-> req.Target # NilTarget, export |-> exported,
                             fault |-> fault, minted |-> 1..(nextId - 1),
                             err |-> out.err, resp |-> out.resp]
                  /\ saved' = IF saves /\ out.err = NoErr
                              THEN [saved EXCEPT ![out.resp.Backup.Id] =
                                      [kind |-> "module", password |-> req.Password,
                                       data |-> exported.data]]
                              ELSE saved
                  /\ UNCHANGED <<full, cfb>>

CreateModuleBackup == CreateModuleBackupFrom(CreateModuleBackupRequests, ExportEnvs)

\* ------------------------------------------------------------------ CreateFullBackup
RECURSIVE SeqsUpTo(_, _)
\* The sequences over S of length 0..n.
SeqsUpTo(S, n) ==
    IF n = 0 THEN {<<>>}
    ELSE LET shorter == SeqsUpTo(S, n - 1)
         IN  shorter \cup {Append(q, x) : q \in {r \in shorter : Len(r) = n - 1}, x \in S}

CreateFullBackupRequestsOf(tenants) ==
    {[Targets |-> ts, Password |-> p, TenantId |-> tid] :
        ts \in SeqsUpTo(Targets, MaxTargets), p \in Passwords, tid \in tenants}

\* The requests of a client that names no tenant.
CreateFullBackupRequests == CreateFullBackupRequestsOf({NilTenant})

\* The zero moduleResult of make([]moduleResult, n).
PendingResult ==
    [set |-> FALSE, target |-> NilTarget, err |-> NoErr, data |-> <<>>, tenantId |-> 0]

ModuleResult(t, exported) ==
    [set |-> TRUE, target |-> t, err |-> exported.err, data |-> exported.data,
     tenantId |-> exported.tenantId]

\* Mutant: each task appends its result in the order the tasks end.
StoreResultAppend(results, idx, mr) ==
    LET free == {j \in DOMAIN results : ~results[j].set}
        slot == CHOOSE j \in free : \A k \in free : j <= k
    IN  [results EXCEPT ![slot] = mr]

\* results[idx] = moduleResult{...}: each task writes its own slot.
StoreResult(results, idx, mr) == [results EXCEPT ![idx] = mr]

IdleCfb ==
    [pc |-> "idle", req |-> [Targets |-> <<>>, Password |-> "", TenantId |-> NilTenant],
     backupID |-> 0,
     now |-> 0,
     results |-> <<>>, finished |-> <<>>, cancelled |-> FALSE]

FailedEntry(mr) == BackupInfo(0, mr.target.ModuleId, "failed", 0, <<mr.err>>)

CompletedEntry(req, mr) ==
    Tenanted(BackupInfo(0, mr.target.ModuleId, "completed", Len(mr.data), <<>>),
             mr.tenantId, FullBackupFlag(req.TenantId))

RECURSIVE AggregateAssign(_, _, _)
\* Mutant: totalSize = len(data) where the code has totalSize += len(data).
AggregateAssign(req, results, n) ==
    IF n = 0
    THEN [moduleBackups |-> <<>>, moduleData |-> <<>>, totalSize |-> 0, errors |-> <<>>]
    ELSE LET acc == AggregateAssign(req, results, n - 1)
             mr == results[n]
         IN  IF mr.err # NoErr
             THEN [acc EXCEPT
                     !.errors = Append(@, Wrap(mr.target.ModuleId, mr.err)),
                     !.moduleBackups = Append(@, FailedEntry(mr))]
             ELSE [acc EXCEPT
                     !.moduleBackups = Append(@, CompletedEntry(req, mr)),
                     !.moduleData = (mr.target.ModuleId :> mr.data) @@ @,
                     !.totalSize = Len(mr.data)]

RECURSIVE Aggregate(_, _, _)
\* The loop over results[1..n]: [moduleBackups, moduleData, totalSize, errors].
Aggregate(req, results, n) ==
    IF n = 0
    THEN [moduleBackups |-> <<>>, moduleData |-> <<>>, totalSize |-> 0, errors |-> <<>>]
    ELSE LET acc == Aggregate(req, results, n - 1)
             mr == results[n]
         IN  IF mr.err # NoErr
             THEN [acc EXCEPT
                     !.errors = Append(@, Wrap(mr.target.ModuleId, mr.err)),
                     !.moduleBackups = Append(@, FailedEntry(mr))]
             ELSE [acc EXCEPT
                     !.moduleBackups = Append(@, CompletedEntry(req, mr)),
                     !.moduleData = (mr.target.ModuleId :> mr.data) @@ @,
                     !.totalSize = @ + Len(mr.data)]

\* Mutant: any export failure marks the whole backup failed.
FullStatusAnyFailed(errors, targets) ==
    IF Len(errors) > 0 THEN "failed" ELSE "completed"

FullStatus(errors, targets) ==
    IF Len(errors) > 0 /\ Len(errors) = Len(targets) THEN "failed"
    ELSE IF Len(errors) > 0 THEN "partial"
    ELSE "completed"

FullBackupInfo(id, status, totalSize, moduleBackups, errors, now) ==
    [Id |-> id, Status |-> status, TotalSizeBytes |-> totalSize,
     ModuleBackups |-> moduleBackups, Errors |-> errors, Encrypted |-> FALSE,
     CreatedAt |-> now, TenantId |-> 0, FullBackup |-> FALSE]

\* Entry: the argument check, uuid.New() and the fan-out of one task per target.
CreateFullBackupStartFrom(requests) ==
    /\ cfb.pc = "idle"
    /\ UNCHANGED run
    /\ \E req \in requests, now \in Times :
        IF Len(req.Targets) = 0
        THEN /\ ret' = [op |-> "CreateFullBackup", req |-> req, results |-> <<>>,
                        finished |-> <<>>, cancelled |-> FALSE, moduleData |-> <<>>,
                        fault |-> [at |-> "none"],
                        err |-> <<"at least one target is required">>, resp |-> NilResp]
             /\ UNCHANGED <<modules, full, nextId, cfb, saved>>
        ELSE /\ nextId <= MaxBackups
             /\ cfb' = [pc |-> "exporting", req |-> req, backupID |-> uuidNew(nextId),
                        now |-> now,
                        results |-> [i \in 1..Len(req.Targets) |-> PendingResult],
                        finished |-> <<>>, cancelled |-> FALSE]
             /\ nextId' = nextId + 1
             /\ ret' = [op |-> "none"]
             /\ UNCHANGED <<modules, full, saved>>

CreateFullBackupStart == CreateFullBackupStartFrom(CreateFullBackupRequests)

\* Mutant: the first failed export ends the wait.
RunningUntilFailure(call) ==
    IF \E k \in 1..Len(call.results) : call.results[k].set /\ call.results[k].err # NoErr
    THEN {}
    ELSE {idx \in 1..Len(call.req.Targets) :
             \A k \in 1..Len(call.finished) : call.finished[k] # idx}

\* The export tasks that have not called wg.Done() yet.
Running(call) ==
    {idx \in 1..Len(call.req.Targets) : \A k \in 1..Len(call.finished) : call.finished[k] # idx}

\* Mutant: the call does not see the cancellation of the request context.
OutcomesIgnoringCancel(call, envs) == envs

\* What an export call can still do: conn.Invoke runs under a context derived
\* from the request context, so once that is cancelled the call fails (as it
\* does when the dial fails).
OutcomesUnder(call, envs) ==
    IF call.cancelled THEN {e \in envs : e.dialErr \/ e.invokeErr} ELSE envs

\* One export task: the call returns, the task stores its result and ends.
\* finished is the order in which the tasks ended.
ExportTaskFrom(envs) ==
    /\ cfb.pc = "exporting"
    /\ UNCHANGED run
    /\ \E idx \in Running(cfb), env \in OutcomesUnder(cfb, envs) :
        LET t == cfb.req.Targets[idx]
        IN  /\ cfb' = [cfb EXCEPT
                             !.results = StoreResult(@, idx,
                                                     ModuleResult(t, ExportBackup(t, env))),
                             !.finished = Append(@, idx)]
            /\ UNCHANGED <<modules, full, nextId, ret, saved>>

ExportTask == ExportTaskFrom(ExportEnvs)

\* Mutant: a batch whose exports all failed is reported as an error and not saved.
CreateFullBackupFinishAbort(store, req, backupID, now, results, salts, fault) ==
    LET agg == Aggregate(req, results, Len(results))
        status == FullStatus(agg.errors, req.Targets)
        info == Tenanted(FullBackupInfo(backupID, status, agg.totalSize, agg.moduleBackups,
                                        agg.errors, now),
                         tenantIDValue(req.TenantId), FullBackupFlag(req.TenantId))
        save == SaveFullBackup(store, info, agg.moduleData, req.Password, salts, fault)
    IN  IF status = "failed"
        THEN [store |-> store, err |-> <<"all exports failed">>, resp |-> NilResp,
              moduleData |-> agg.moduleData]
        ELSE IF save.err # NoErr
        THEN [store |-> save.store, err |-> Wrap("save full backup", save.err),
              resp |-> NilResp, moduleData |-> agg.moduleData]
        ELSE [store |-> save.store, err |-> NoErr, resp |-> [Backup |-> save.info],
              moduleData |-> agg.moduleData]

\* [store, err, resp, moduleData]: everything after wg.Wait().
CreateFullBackupFinishHandler(store, req, backupID, now, results, salts, fault) ==
    LET agg == Aggregate(req, results, Len(results))
        status == FullStatus(agg.errors, req.Targets)
        info == Tenanted(FullBackupInfo(backupID, status, agg.totalSize, agg.moduleBackups,
                                        agg.errors, now),
                         tenantIDValue(req.TenantId), FullBackupFlag(req.TenantId))
        save == SaveFullBackup(store, info, agg.moduleData, req.Password, salts, fault)
    IN  IF save.err # NoErr
        THEN [store |-> save.store, err |-> Wrap("save full backup", save.err),
              resp |-> NilResp, moduleData |-> agg.moduleData]
        ELSE [store |-> save.store, err |-> NoErr, resp |-> [Backup |-> save.info],
              moduleData |-> agg.moduleData]

\* The caller cancels the request context while exports are in flight.
CancelRequest ==
    /\ cfb.pc = "exporting"
    /\ UNCHANGED run
    /\ ~cfb.cancelled
    /\ Running(cfb) # {}
    /\ cfb' = [cfb EXCEPT !.cancelled = TRUE]
    /\ UNCHANGED <<modules, full, nextId, ret, saved>>

\* The rest of the handler once wg.Wait() returns, on a disk whose faults are
\* of the kinds in faultKinds.
CreateFullBackupFinishFrom(faultKinds) ==
    /\ cfb.pc = "exporting"
    /\ UNCHANGED run
    /\ Running(cfb) = {}
    /\ LET md == Aggregate(cfb.req, cfb.results, Len(cfb.results)).moduleData
       IN  \E salts \in [DOMAIN md -> Salts],
              fault \in {f \in SaveFullFaults(md, cfb.req.Password) : f.at \in faultKinds} :
             \E out \in {CreateFullBackupFinishHandler(full, cfb.req, cfb.backupID, cfb.now,
                                                         cfb.results, salts, fault)} :
                 /\ full' = out.store
                 /\ ret' = [op |-> "CreateFullBackup", req |-> cfb.req,
                            results |-> cfb.results, finished |-> cfb.finished,
                            cancelled |-> cfb.cancelled,
                            moduleData |-> out.moduleData,
                            fault |-> fault, err |-> out.err, resp |-> out.resp]
                 /\ saved' = IF out.err = NoErr
                             THEN [saved EXCEPT ![cfb.backupID] =
                                     [kind |-> "full", password |-> cfb.req.Password,
                                      data |-> out.moduleData]]
                             ELSE saved
                 /\ cfb' = IdleCfb
                 /\ UNCHANGED <<modules, nextId>>

CreateFullBackupFinish ==
    CreateFullBackupFinishFrom({"none", "mkdir", "manifest", "payload", "encrypt"})

\* ------------------------------------------------------------------ RestoreModuleBackup
RestoreModuleBackupRequests ==
    {[BackupId |-> id, Target |-> t, Password |-> p] :
        id \in BackupIds, t \in Targets \cup {NilTarget}, p \in ReadPasswords}

\* Mutant: a failed import is returned as a response with success = false.
RestoreModuleBackupLenient(store, req, env) ==
    LET load == LoadModuleBackupData(store, req.BackupId, req.Password)
        imp == ImportBackup(req.Target, load.data, env)
    IN  IF req.Target = NilTarget
        THEN [err |-> <<"target is required">>, resp |-> <<>>, imports |-> <<>>]
        ELSE IF load.err # NoErr
        THEN [err |-> Wrap("load backup data", load.err), resp |-> <<>>, imports |-> <<>>]
        ELSE [err |-> NoErr, resp |-> [Success |-> imp.resp.Success],
              imports |-> <<ImportCall(req.Target, load.data, imp)>>]

\* [err, resp, imports]: imports are the ImportBackup calls the handler made.
RestoreModuleBackupHandler(store, req, env) ==
    LET load == LoadModuleBackupData(store, req.BackupId, req.Password)
        imp == ImportBackup(req.Target, load.data, env)
    IN  IF req.Target = NilTarget
        THEN [err |-> <<"target is required">>, resp |-> <<>>, imports |-> <<>>]
        ELSE IF load.err # NoErr
        THEN [err |-> Wrap("load backup data", load.err), resp |-> <<>>, imports |-> <<>>]
        ELSE IF imp.err # NoErr
        THEN [err |-> Wrap("import backup to " \o req.Target.ModuleId, imp.err),
              resp |-> <<>>, imports |-> <<ImportCall(req.Target, load.data, imp)>>]
        ELSE [err |-> NoErr, resp |-> [Success |-> imp.resp.Success],
              imports |-> <<ImportCall(req.Target, load.data, imp)>>]

RestoreModuleBackup ==
    /\ cfb.pc = "idle"
    /\ UNCHANGED run
    /\ \E req \in RestoreModuleBackupRequests :
        LET imports == /\ req.Target # NilTarget
                       /\ LoadModuleBackupData(modules, req.BackupId, req.Password).err = NoErr
        IN  \* the import and its outcome exist only after a successful load
            \E env \in IF imports THEN ImportEnvs
                        ELSE {[dialErr |-> FALSE, invokeErr |-> FALSE, success |-> TRUE]} :
                LET out == RestoreModuleBackupHandler(modules, req, env)
                IN  /\ ret' = [op |-> "RestoreModuleBackup", req |-> req, err |-> out.err,
                               resp |-> out.resp, imports |-> out.imports]
                    /\ UNCHANGED <<modules, full, nextId, cfb, saved>>

\* ------------------------------------------------------------------ RestoreFullBackup
\* Target lists of a restore request: at most one target per module.
RestoreTargetLists ==
    {ts \in SeqsUpTo(Targets, MaxTargets) :
        \A i, j \in 1..Len(ts) : i # j => ts[i].ModuleId # ts[j].ModuleId}

RestoreFullBackupRequests ==
    {[BackupId |-> id, Targets |-> ts, Password |-> p] :
        id \in BackupIds, ts \in RestoreTargetLists, p \in ReadPasswords}

\* targetMap[t.ModuleId] = t for each target in turn: the last one wins.
TargetMap(targets) ==
    [m \in {targets[i].ModuleId : i \in 1..Len(targets)} |->
        LET last == CHOOSE i \in 1..Len(targets) :
                        /\ targets[i].ModuleId = m
                        /\ \A j \in 1..Len(targets) : targets[j].ModuleId = m => j <= i
        IN  targets[last]]

ModuleRestoreResult(moduleId, success, error) ==
    [ModuleId |-> moduleId, Success |-> success, Error |-> error]

\* The state of the restore loop before its first entry.
RestoreStart == [moduleResults |-> <<>>, allSuccess |-> TRUE, imports |-> <<>>]

\* Mutant: a completed module without target is passed over silently.
RestoreEntrySkipMissing(acc, store, req, mb, env) ==
    LET targetMap == TargetMap(req.Targets)
        load == LoadFullBackupModuleData(store, req.BackupId, mb.ModuleId, req.Password)
        target == targetMap[mb.ModuleId]
        imp == ImportBackup(target, load.data, env)
    IN  IF mb.Status # "completed" \/ mb.ModuleId \notin DOMAIN targetMap
        THEN acc
        ELSE IF load.err # NoErr
        THEN [acc EXCEPT
                !.moduleResults = Append(@, ModuleRestoreResult(mb.ModuleId, FALSE,
                                                Wrap("load data", load.err))),
                !.allSuccess = FALSE]
        ELSE IF imp.err # NoErr
        THEN [acc EXCEPT
                !.moduleResults = Append(@, ModuleRestoreResult(mb.ModuleId, FALSE, imp.err)),
                !.allSuccess = FALSE,
                !.imports = Append(@, ImportCall(target, load.data, imp))]
        ELSE [acc EXCEPT
                !.moduleResults = Append(@, ModuleRestoreResult(mb.ModuleId,
                                                imp.resp.Success, NoErr)),
                !.imports = Append(@, ImportCall(target, load.data, imp))]

\* One pass of the loop body over manifest entry mb.
RestoreEntry(acc, store, req, mb, env) ==
    LET targetMap == TargetMap(req.Targets)
        load == LoadFullBackupModuleData(store, req.BackupId, mb.ModuleId, req.Password)
        target == targetMap[mb.ModuleId]
        imp == ImportBackup(target, load.data, env)
    IN  IF mb.Status # "completed"
        THEN acc
        ELSE IF mb.ModuleId \notin DOMAIN targetMap
        THEN [acc EXCEPT
                !.moduleResults = Append(@, ModuleRestoreResult(mb.ModuleId, FALSE,
                                    <<"no target endpoint provided for this module">>)),
                !.allSuccess = FALSE]
        ELSE IF load.err # NoErr
        THEN [acc EXCEPT
                !.moduleResults = Append(@, ModuleRestoreResult(mb.ModuleId, FALSE,
                                                Wrap("load data", load.err))),
                !.allSuccess = FALSE]
        ELSE IF imp.err # NoErr
        THEN [acc EXCEPT
                !.moduleResults = Append(@, ModuleRestoreResult(mb.ModuleId, FALSE, imp.err)),
                !.allSuccess = FALSE,
                !.imports = Append(@, ImportCall(target, load.data, imp))]
        ELSE [acc EXCEPT
                !.moduleResults = Append(@, ModuleRestoreResult(mb.ModuleId,
                                                imp.resp.Success, NoErr)),
                !.imports = Append(@, ImportCall(target, load.data, imp))]

RECURSIVE RestoreLoopAbort(_, _, _, _, _)
\* Mutant: the loop stops at the first module that fails.
RestoreLoopAbort(store, req, entries, envs, n) ==
    IF n = 0 THEN RestoreStart
    ELSE LET acc == RestoreLoopAbort(store, req, entries, envs, n - 1)
         IN  IF acc.allSuccess THEN RestoreEntry(acc, store, req, entries[n], envs[n])
             ELSE acc

RECURSIVE RestoreLoop(_, _, _, _, _)
\* for _, mb := range info.ModuleBackups, over entries[1..n].
RestoreLoop(store, req, entries, envs, n) ==
    IF n = 0 THEN RestoreStart
    ELSE RestoreEntry(RestoreLoop(store, req, entries, envs, n - 1),
                      store, req, entries[n], envs[n])

\* Mutant: the manifest is read before the target list is checked.
RestoreFullBackupManifestFirst(store, req, envs) ==
    LET got == GetFullBackup(store, req.BackupId)
        loop == RestoreLoop(store, req, got.info.ModuleBackups, envs,
                            Len(got.info.ModuleBackups))
    IN  IF got.err # NoErr
        THEN [err |-> Wrap("get full backup", got.err), resp |-> <<>>, imports |-> <<>>]
        ELSE IF Len(req.Targets) = 0
        THEN [err |-> <<"at least one target is required">>, resp |-> <<>>,
              imports |-> <<>>]
        ELSE [err |-> NoErr,
              resp |-> [Success |-> loop.allSuccess, ModuleResults |-> loop.moduleResults],
              imports |-> loop.imports]

\* [err, resp, imports]
RestoreFullBackupHandler(store, req, envs) ==
    LET got == GetFullBackup(store, req.BackupId)
        loop == RestoreLoop(store, req, got.info.ModuleBackups, envs,
                            Len(got.info.ModuleBackups))
    IN  IF Len(req.Targets) = 0
        THEN [err |-> <<"at least one target is required">>, resp |-> <<>>,
              imports |-> <<>>]
        ELSE IF got.err # NoErr
        THEN [err |-> Wrap("get full backup", got.err), resp |-> <<>>, imports |-> <<>>]
        ELSE [err |-> NoErr,
              resp |-> [Success |-> loop.allSuccess, ModuleResults |-> loop.moduleResults],
              imports |-> loop.imports]

\* The manifest entries of a request for which ImportBackup is called.
Importing(store, req) ==
    LET got == GetFullBackup(store, req.BackupId)
    IN  IF Len(req.Targets) = 0 \/ got.err # NoErr THEN {}
        ELSE {i \in 1..Len(got.info.ModuleBackups) :
                LET mb == got.info.ModuleBackups[i]
                IN  /\ mb.Status = "completed"
                    /\ mb.ModuleId \in DOMAIN TargetMap(req.Targets)
                    /\ LoadFullBackupModuleData(store, req.BackupId, mb.ModuleId,
                                                req.Password).err = NoErr}

RestoreFullBackup ==
    /\ cfb.pc = "idle"
    /\ UNCHANGED run
    /\ \E req \in RestoreFullBackupRequests :
        \* one import outcome per entry that reaches ImportBackup
        \E called \in [Importing(full, req) -> ImportEnvs] :
            LET envs == [i \in 1..MaxTargets |->
                            IF i \in DOMAIN called THEN called[i]
                            ELSE [dialErr |-> FALSE, invokeErr |-> FALSE, success |-> TRUE]]
                out == RestoreFullBackupHandler(full, req, envs)
            IN  /\ ret' = [op |-> "RestoreFullBackup", req |-> req, err |-> out.err,
                           resp |-> out.resp, imports |-> out.imports]
                /\ UNCHANGED <<modules, full, nextId, cfb, saved>>

\* ------------------------------------------------------------------ reads and deletes
\* [err, data, filename, decrypted]
DownloadBackupHandler(store, id, password) ==
    LET got == GetModuleBackup(store, id)
        loaded == LoadModuleBackupData(store, id, password)
    IN  IF got.err # NoErr
        THEN [err |-> Wrap("get backup metadata", got.err), data |-> <<>>,
              filename |-> <<>>, decrypted |-> FALSE]
        ELSE IF got.info.Encrypted /\ password = ""
        THEN [err |-> ErrPasswordRequired, data |-> <<>>, filename |-> <<>>,
              decrypted |-> FALSE]
        ELSE IF loaded.err # NoErr
        THEN [err |-> Wrap("load backup data", loaded.err), data |-> <<>>,
              filename |-> <<>>, decrypted |-> loaded.decrypted]
        ELSE [err |-> NoErr, data |-> loaded.data,
              filename |-> <<got.info.ModuleId, got.info.Id>>,
              decrypted |-> loaded.decrypted]

DownloadBackup ==
    /\ cfb.pc = "idle"
    /\ UNCHANGED run
    /\ \E id \in BackupIds, password \in ReadPasswords :
        /\ ret' = [op |-> "DownloadBackup", id |-> id, password |-> password,
                   out |-> DownloadBackupHandler(modules, id, password)]
        /\ UNCHANGED <<modules, full, nextId, cfb, saved>>

\* A call of the store's module payload read (the first step of a module restore).
LoadModuleData ==
    /\ cfb.pc = "idle"
    /\ UNCHANGED run
    /\ \E id \in BackupIds, password \in ReadPasswords :
        /\ ret' = [op |-> "LoadModuleBackupData", id |-> id, password |-> password,
                   out |-> LoadModuleBackupData(modules, id, password)]
        /\ UNCHANGED <<modules, full, nextId, cfb, saved>>

\* A call of the store's full-backup payload read (one step of a full restore).
LoadFullModuleData ==
    /\ cfb.pc = "idle"
    /\ UNCHANGED run
    /\ \E id \in BackupIds, moduleID \in ModuleIds, password \in ReadPasswords :
        /\ ret' = [op |-> "LoadFullBackupModuleData", id |-> id, moduleID |-> moduleID,
                   password |-> password,
                   out |-> LoadFullBackupModuleData(full, id, moduleID, password)]
        /\ UNCHANGED <<modules, full, nextId, cfb, saved>>

DeleteBackup ==
    /\ cfb.pc = "idle"
    /\ UNCHANGED run
    /\ \E id \in BackupIds :
        LET out == DeleteModuleBackup(modules, id)
        IN  /\ modules' = out.store
            /\ ret' = [op |-> "DeleteBackup", id |-> id,
                       err |-> IF out.err = NoErr THEN NoErr
                               ELSE Wrap("delete backup", out.err)]
            /\ saved' = IF out.err = NoErr /\ saved[id].kind = "module"
                        THEN [saved EXCEPT ![id] = NoSaved] ELSE saved
            /\ UNCHANGED <<full, nextId, cfb>>

DeleteFullBackupOp ==
    /\ cfb.pc = "idle"
    /\ UNCHANGED run
    /\ \E id \in BackupIds :
        LET out == DeleteFullBackup(full, id)
        IN  /\ full' = out.store
            /\ ret' = [op |-> "DeleteFullBackup", id |-> id,
                       err |-> IF out.err = NoErr THEN NoErr
                               ELSE Wrap("delete full backup", out.err)]
            /\ saved' = IF out.err = NoErr /\ saved[id].kind = "full"
                        THEN [saved EXCEPT ![id] = NoSaved] ELSE saved
            /\ UNCHANGED <<modules, nextId, cfb>>

\* ------------------------------------------------------------------ ListBackups, ListFullBackups
\* The int32 range of the page and pageSize fields and of the handlers'
\* arithmetic.
MaxInt32 == 2147483647

MinInt32 == -MaxInt32 - 1

DefaultPageSize == 20

MaxPageSize == 100

\* x + y on int32 operands, wrapping on overflow as Go's + does.
Add32(x, y) ==
    IF y > 0 /\ x > MaxInt32 - y
    THEN (x - MaxInt32 - 1) + (y - MaxInt32 - 1)
    ELSE IF y < 0 /\ x < MinInt32 - y
    THEN (x + MaxInt32 + 1) + (y + MaxInt32 + 1)
    ELSE x + y

\* -x on int32
Neg32(x) == IF x = MinInt32 THEN MinInt32 ELSE -x

RECURSIVE MulNat32(_, _)
\* a * b on int32 for b >= 0, by doubling: every sum wraps.
MulNat32(a, b) ==
    IF b = 0
    THEN 0
    ELSE CHOOSE product \in {IF b % 2 = 1 THEN Add32(Add32(half, half), a)
                                          ELSE Add32(half, half) :
                             half \in {MulNat32(a, b \div 2)}} : TRUE

\* a * b on int32 operands, wrapping on overflow as Go's * does.
Mul32(a, b) ==
    IF b >= 0
    THEN MulNat32(a, b)
    ELSE IF b = MinInt32
    THEN (IF a % 2 = 1 THEN MinInt32 ELSE 0)
    ELSE Neg32(MulNat32(a, -b))

\* Mutant: the page size is not capped.
normalizePaginationUncapped(page, pageSize) ==
    [page |-> IF page <= 0 THEN 1 ELSE page,
     pageSize |-> IF pageSize <= 0 THEN DefaultPageSize ELSE pageSize]

\* [page, pageSize]
normalizePagination(page, pageSize) ==
    LET page1 == IF page <= 0 THEN 1 ELSE page
        size1 == IF pageSize <= 0 THEN DefaultPageSize ELSE pageSize
        size2 == IF size1 > MaxPageSize THEN MaxPageSize ELSE size1
    IN  [page |-> page1, pageSize |-> size2]

\* Mutant: the page starts one item late.
PaginateShifted(backups, reqPage, reqPageSize) ==
    LET total == Len(backups)
        norm == normalizePagination(reqPage, reqPageSize)
        start == Add32(Mul32(Add32(norm.page, -1), norm.pageSize), 1)
        sum == Add32(start, norm.pageSize)
        end == IF sum > total THEN total ELSE sum
    IN  IF start >= total
        THEN [panic |-> FALSE, Backups |-> <<>>, Total |-> total, norm |-> norm]
        ELSE IF start < 0 \/ start > end
        THEN [panic |-> TRUE, Backups |-> <<>>, Total |-> total, norm |-> norm]
        ELSE [panic |-> FALSE, Backups |-> SubSeq(backups, start + 1, end),
              Total |-> total, norm |-> norm]

\* The pagination both list handlers run on the listed slice.
\* [panic, Backups, Total, norm]: panic is the run-time fault of the slice
\* expression backups[start:end], which needs 0 <= start <= end <= len.
Paginate(backups, reqPage, reqPageSize) ==
    LET total == Len(backups)
        norm == normalizePagination(reqPage, reqPageSize)
        start == Mul32(Add32(norm.page, -1), norm.pageSize)
        sum == Add32(start, norm.pageSize)
        end == IF sum > total THEN total ELSE sum
    IN  IF start >= total
        THEN [panic |-> FALSE, Backups |-> <<>>, Total |-> total, norm |-> norm]
        ELSE IF start < 0 \/ start > end
        THEN [panic |-> TRUE, Backups |-> <<>>, Total |-> total, norm |-> norm]
        ELSE [panic |-> FALSE, Backups |-> SubSeq(backups, start + 1, end),
              Total |-> total, norm |-> norm]

\* Values of the page field: the ends of the range, the defaults' edge, small
\* pages, and pages whose start leaves the int32 range.
Pages == {MinInt32, 0, 1, 2, 3, 21474838, 67108865, MaxInt32}

\* Values of the pageSize field.
PageSizes == {MinInt32, 0, 1, 2, 64, 100, 101, MaxInt32}

\* The module filter is absent or names the first module.
ListBackupsRequestsOf(tenants, pages, pageSizes) ==
    {[ModuleId |-> m, TenantId |-> tid, Page |-> p, PageSize |-> ps] :
        m \in {"", "A"}, tid \in tenants, p \in pages, ps \in pageSizes}

\* The requests of a client that names no tenant.
ListBackupsRequests == ListBackupsRequestsOf({NilTenant}, Pages, PageSizes)

ListFullBackupsRequestsOf(tenants, pages, pageSizes) ==
    {[TenantId |-> tid, Page |-> p, PageSize |-> ps] :
        tid \in tenants, p \in pages, ps \in pageSizes}

ListFullBackupsRequests == ListFullBackupsRequestsOf({NilTenant}, Pages, PageSizes)

NilListResp == [Backups |-> <<>>, Total |-> 0]

\* The outcome of a list handler from the storage listing, under the error
\* prefix of the handler.  [err, panic, resp, norm]
ListResponse(listed, prefix, page, pageSize) ==
    LET p == Paginate(listed.backups, page, pageSize)
    IN  IF listed.err # NoErr
        THEN [err |-> Wrap(prefix, listed.err), panic |-> FALSE, resp |-> NilListResp,
              norm |-> [page |-> 0, pageSize |-> 0]]
        ELSE IF p.panic
        THEN [err |-> NoErr, panic |-> TRUE, resp |-> NilListResp, norm |-> p.norm]
        ELSE [err |-> NoErr, panic |-> FALSE,
              resp |-> [Backups |-> p.Backups, Total |-> p.Total], norm |-> p.norm]

ListBackupsHandler(store, req, readDirErr) ==
    ListResponse(ListModuleBackups(store, req.ModuleId, req.TenantId, readDirErr),
                 "list backups",
                 req.Page, req.PageSize)

ListFullBackupsHandler(store, req, readDirErr) ==
    ListResponse(ListFullBackups(store, req.TenantId, readDirErr), "list full backups",
                 req.Page, req.PageSize)

ListBackupsFrom(requests) ==
    /\ cfb.pc = "idle"
    /\ UNCHANGED run
    /\ \E req \in requests, readDirErr \in BOOLEAN :
        /\ ret' = [op |-> "ListBackups", req |-> req, readDirErr |-> readDirErr,
                   out |-> ListBackupsHandler(modules, req, readDirErr)]
        /\ UNCHANGED <<modules, full, nextId, cfb, saved>>

ListBackups == ListBackupsFrom(ListBackupsRequests)

ListFullBackupsFrom(requests) ==
    /\ cfb.pc = "idle"
    /\ UNCHANGED run
    /\ \E req \in requests, readDirErr \in BOOLEAN :
        /\ ret' = [op |-> "ListFullBackups", req |-> req, readDirErr |-> readDirErr,
                   out |-> ListFullBackupsHandler(full, req, readDirErr)]
        /\ UNCHANGED <<modules, full, nextId, cfb, saved>>

ListFullBackupsOp == ListFullBackupsFrom(ListFullBackupsRequests)

\* ------------------------------------------------------------------ specification
\* NewBackupStorage: the two roots exist and hold no backup.
Init ==
    /\ modules = [id \in BackupIds |-> NoDir]
    /\ full = [id \in BackupIds |-> NoDir]
    /\ nextId = 1
    /\ cfb = IdleCfb
    /\ ret = [op |-> "none"]
    /\ run = IdleRun
    /\ saved = [id \in BackupIds |-> NoSaved]

Next ==
    \/ CreateModuleBackup
    \/ CreateFullBackupStart
    \/ ExportTask
    \/ CreateFullBackupFinish
    \/ RestoreModuleBackup
    \/ RestoreFullBackup
    \/ DownloadBackup
    \/ LoadModuleData
    \/ LoadFullModuleData
    \/ DeleteBackup
    \/ DeleteFullBackupOp
    \/ ListBackups
    \/ ListFullBackupsOp
    \/ CancelRequest

Spec == Init /\ [][Next]_vars

\* The service with one backup id left to mint: the ids before it went to
\* CreateModuleBackup calls whose export failed, which store nothing.
InitLast ==
    /\ modules = [id \in BackupIds |-> NoDir]
    /\ full = [id \in BackupIds |-> NoDir]
    /\ nextId = MaxBackups
    /\ cfb = IdleCfb
    /\ ret = [op |-> "none"]
    /\ run = IdleRun
    /\ saved = [id \in BackupIds |-> NoSaved]

\* The calls that create, read and delete backups.  The restore handlers read
\* the store and leave it as it is; they are explored by SpecRestore.
NextCall ==
    \/ CreateModuleBackup
    \/ CreateFullBackupStart
    \/ ExportTask
    \/ CreateFullBackupFinish
    \/ DownloadBackup
    \/ LoadModuleData
    \/ LoadFullModuleData
    \/ DeleteBackup
    \/ DeleteFullBackupOp

SpecCall == InitLast /\ [][NextCall]_vars

EmptyStore == [id \in BackupIds |-> NoDir]

\* The results a CreateFullBackup call can collect for a target list.
ResultsOf(targets) ==
    {[i \in 1..Len(targets) |-> ModuleResult(targets[i], ExportBackup(targets[i], envs[i]))] :
        envs \in [1..Len(targets) -> ExportEnvs]}

\* The stores one create call leaves behind: a CreateModuleBackup call that
\* minted id 1, or a CreateFullBackup call that minted the last id; every
\* other id went to a call that stored nothing.
InitRestore ==
    /\ nextId = MaxBackups + 1
    /\ cfb = IdleCfb
    /\ ret = [op |-> "none"]
    /\ run = IdleRun
    /\ \/ \E req \in CreateModuleBackupRequests, now \in Times, env \in ExportEnvs,
              salt \in Salts :
            /\ req.Target # NilTarget
            /\ \E fault \in SaveModuleFaults(req.Password) :
                 LET out == CreateModuleBackupHandler(EmptyStore, req, 1, now, env, salt, fault)
                     kept == ExportBackup(req.Target, env).err = NoErr /\ out.err = NoErr
                 IN  /\ modules = out.store
                     /\ full = EmptyStore
                     /\ saved = [id \in BackupIds |->
                                   IF id = 1 /\ kept
                                   THEN [kind |-> "module", password |-> req.Password,
                                         data |-> env.data]
                                   ELSE NoSaved]
       \/ \E req \in CreateFullBackupRequests, now \in Times :
            /\ Len(req.Targets) > 0
            /\ \E results \in ResultsOf(req.Targets) :
                 LET md == Aggregate(req, results, Len(results)).moduleData
                 IN  \E salts \in [DOMAIN md -> Salts],
                        fault \in SaveFullFaults(md, req.Password) :
                        LET out == CreateFullBackupFinishHandler(EmptyStore, req, MaxBackups, now,
                                                                 results, salts, fault)
                        IN  /\ modules = EmptyStore
                            /\ full = out.store
                            /\ saved = [id \in BackupIds |->
                                          IF id = MaxBackups /\ out.err = NoErr
                                          THEN [kind |-> "full", password |-> req.Password,
                                                data |-> md]
                                          ELSE NoSaved]

\* One call on such a store: a restore, or a CreateFullBackup, of which only
\* the argument check can return since no id is left to mint.
NextRestore ==
    \/ ret.op = "none" /\ RestoreModuleBackup
    \/ ret.op = "none" /\ RestoreFullBackup
    \/ ret.op = "none" /\ CreateFullBackupStart

SpecRestore == InitRestore /\ [][NextRestore]_vars

\* What the modules answer while the store is filled: unreachable, or one
\* fixed payload for a tenant of tenants.
FillEnvsOf(tenants) == {e \in ExportEnvsOf(tenants) : e.dialErr \/ e.data = <<7>>}

FillEnvs == FillEnvsOf({0})

\* The store after one more create call of a client that sets no password and
\* names a tenant of tenants, at a time of times, while the modules answer as
\* in envs: a
\* CreateModuleBackup of one module, or a CreateFullBackup of the first module
\* when asFull, given the id the call mints; the disk may tear the metadata
\* write.  [modules, full, saved]
CreatedOn(s, id, asFull, tenants, times, envs) ==
    IF asFull
    THEN {LET req == [Targets |-> <<t>>, Password |-> "", TenantId |-> tid]
              results == <<ModuleResult(t, ExportBackup(t, env))>>
              out == CreateFullBackupFinishHandler(s.full, req, id, now, results,
                                                   [m \in ModuleIds |-> "s1"], fault)
              md == Aggregate(req, results, Len(results)).moduleData
          IN  [modules |-> s.modules, full |-> out.store,
               saved |-> IF out.err = NoErr
                         THEN [s.saved EXCEPT ![id] =
                                 [kind |-> "full", password |-> "", data |-> md]]
                         ELSE s.saved] :
            t \in {x \in Targets : x.ModuleId = "A"},
            tid \in tenants,
            now \in times,
            env \in envs,
            fault \in {f \in SaveFullFaults(<<>>, "") :
                         f.at = "none" \/ (f.at = "manifest" /\ f.torn)}}
    ELSE {LET out == CreateModuleBackupHandler(s.modules, req, id, now, env, "s1", fault)
              kept == ExportBackup(req.Target, env).err = NoErr /\ out.err = NoErr
          IN  [modules |-> out.store, full |-> s.full,
               saved |-> IF kept
                         THEN [s.saved EXCEPT ![id] =
                                 [kind |-> "module", password |-> "", data |-> env.data]]
                         ELSE s.saved] :
            req \in {r \in CreateModuleBackupRequestsOf(tenants) :
                        r.Target # NilTarget /\ r.Password = ""},
            now \in times,
            env \in envs,
            fault \in {f \in SaveModuleFaults("") :
                         f.at = "none" \/ (f.at = "metadata" /\ f.torn)}}

RECURSIVE StoresAfter(_, _, _, _)
\* The stores n such calls can leave behind.
StoresAfter(n, tenants, times, envs) ==
    IF n = 0
    THEN {[modules |-> EmptyStore, full |-> EmptyStore,
           saved |-> [id \in BackupIds |-> NoSaved]]}
    ELSE UNION {CreatedOn(s, n, asFull, tenants, times, envs) :
                  s \in StoresAfter(n - 1, tenants, times, envs), asFull \in BOOLEAN}

\* A client that has filled the store and is about to list it.
InitList ==
    /\ nextId = MaxBackups + 1
    /\ cfb = IdleCfb
    /\ ret = [op |-> "none"]
    /\ run = IdleRun
    /\ \E s \in StoresAfter(MaxBackups, {NilTenant}, Times, FillEnvs) :
         /\ modules = s.modules
         /\ full = s.full
         /\ saved = s.saved

\* One list call on such a store.
NextList ==
    \/ ret.op = "none" /\ ListBackups
    \/ ret.op = "none" /\ ListFullBackupsOp

SpecList == InitList /\ [][NextList]_vars

\* A client that has filled the store for several tenants, all at one reading
\* of the clock, and is about to list it.
InitFilter ==
    /\ nextId = MaxBackups + 1
    /\ cfb = IdleCfb
    /\ ret = [op |-> "none"]
    /\ run = IdleRun
    /\ \E s \in StoresAfter(MaxBackups, OptionalTenants, {1}, FillEnvsOf(TenantIds)) :
         /\ modules = s.modules
         /\ full = s.full
         /\ saved = s.saved

\* One list call for the first page of the largest size, with or without a
\* tenant filter.
NextFilter ==
    \/ ret.op = "none" /\ ListBackupsFrom(ListBackupsRequestsOf(OptionalTenants, {1}, {100}))
    \/ ret.op = "none"
       /\ ListFullBackupsFrom(ListFullBackupsRequestsOf(OptionalTenants, {1}, {100}))

SpecFilter == InitFilter /\ [][NextFilter]_vars

\* ------------------------------------------------------------------ properties
\* The CreateFullBackup call that returned last ran its exports (its target
\* list was not empty), and returned without error.
CfbRan == ret.op = "CreateFullBackup" /\ Len(ret.req.Targets) > 0

CfbOk == CfbRan /\ ret.err = NoErr

\* Index sets of the returned call: the targets whose export succeeded / failed.
CfbSucceeded == {i \in 1..Len(ret.results) : ret.results[i].err = NoErr}

CfbFailed == {i \in 1..Len(ret.results) : ret.results[i].err # NoErr}

EntriesWith(info, status) ==
    {i \in 1..Len(info.ModuleBackups) : info.ModuleBackups[i].Status = status}

RECURSIVE SumOfLengths(_, _)
\* Sum of the payload lengths of the results with index in idxs.
SumOfLengths(results, idxs) ==
    IF idxs = {} THEN 0
    ELSE LET i == CHOOSE j \in idxs : TRUE
         IN  Len(results[i].data) + SumOfLengths(results, idxs \ {i})

\* C1: the manifest of a CreateFullBackup call with a non-empty target list has
\* status completed iff every export succeeded, failed iff every export failed
\* and partial otherwise, and the same holds against the statuses of its
\* moduleBackups entries.
C1_StatusMatchesExports ==
    CfbOk =>
        LET info == ret.resp.Backup
            all == 1..Len(ret.req.Targets)
        IN  /\ info.Status \in {"completed", "failed", "partial"}
            /\ info.Status = "completed" <=> CfbSucceeded = all
            /\ info.Status = "failed" <=> CfbFailed = all
            /\ info.Status = "partial" <=> (CfbSucceeded # {} /\ CfbFailed # {})
            /\ info.Status = "completed" <=> EntriesWith(info, "completed") = all
            /\ info.Status = "failed" <=> EntriesWith(info, "failed") = all

\* C1 witness: a call returned a partial manifest.
C1_Witness ==
    /\ CfbOk
    /\ ret.resp.Backup.Status = "partial"
    /\ CfbSucceeded # {} /\ CfbFailed # {}

\* C2: moduleBackups has one entry per requested target and entry i carries the
\* moduleId of target i, whatever the order in which the export tasks ended and
\* whichever of them failed.
C2_EntriesFollowTargets ==
    CfbOk =>
        LET info == ret.resp.Backup
        IN  /\ Len(info.ModuleBackups) = Len(ret.req.Targets)
            /\ \A i \in 1..Len(ret.req.Targets) :
                  info.ModuleBackups[i].ModuleId = ret.req.Targets[i].ModuleId

\* C2 witness: two targets of different modules, the second task ended first
\* and one export failed.
C2_Witness ==
    /\ CfbOk
    /\ Len(ret.req.Targets) = 2
    /\ ret.req.Targets[1].ModuleId # ret.req.Targets[2].ModuleId
    /\ ret.finished = <<2, 1>>
    /\ CfbFailed # {}

\* C3: CreateFullBackup returns an error only for an empty target list or a
\* failing SaveFullBackup; with export failures alone, even of every target, it
\* returns the manifest, which is also the one persisted and which records the
\* failures.
C3_ErrorOnlyFromArgsOrSave ==
    ret.op = "CreateFullBackup" =>
        /\ ret.err # NoErr <=> (Len(ret.req.Targets) = 0 \/ ret.fault.at # "none")
        /\ CfbOk =>
            /\ GetFullBackup(full, ret.resp.Backup.Id).err = NoErr
            /\ GetFullBackup(full, ret.resp.Backup.Id).info = ret.resp.Backup
            /\ \A i \in CfbFailed :
                  /\ ret.resp.Backup.ModuleBackups[i].Status = "failed"
                  /\ ret.resp.Backup.ModuleBackups[i].Warnings = <<ret.results[i].err>>

\* C3 witness: every export failed and the call returned the manifest.
C3_Witness ==
    /\ CfbOk
    /\ Len(ret.req.Targets) = 2
    /\ CfbFailed = 1..Len(ret.req.Targets)
    /\ ret.resp.Backup.Status = "failed"

\* C4: totalSizeBytes is the sum of the payload lengths of exactly the targets
\* whose export succeeded, and errors has one entry per failed export.
C4_TotalSizeAndErrors ==
    CfbOk =>
        /\ ret.resp.Backup.TotalSizeBytes = SumOfLengths(ret.results, CfbSucceeded)
        /\ Len(ret.resp.Backup.Errors) = Cardinality(CfbFailed)

\* C4 witness: two exports succeeded with payloads of different length.
C4_Witness ==
    /\ CfbOk
    /\ Cardinality(CfbSucceeded) = 2
    /\ ret.resp.Backup.TotalSizeBytes = 3

\* C5 (as claimed): after a successful CreateFullBackup the persisted manifest
\* lists every requested target, and for every target the module's payload
\* file exists and loads iff that target's export succeeded; it is missing and
\* fails to load for every failed target.
C5_PayloadIffExported ==
    CfbOk =>
        LET id == ret.resp.Backup.Id
            got == GetFullBackup(full, id)
            enc == ret.req.Password # ""
        IN  /\ got.err = NoErr
            /\ Len(got.info.ModuleBackups) = Len(ret.req.Targets)
            /\ \A i \in 1..Len(ret.req.Targets) :
                LET m == ret.req.Targets[i].ModuleId
                    load == LoadFullBackupModuleData(full, id, m, ret.req.Password)
                IN  /\ got.info.ModuleBackups[i].ModuleId = m
                    /\ i \in CfbSucceeded <=> got.info.ModuleBackups[i].Status = "completed"
                    /\ i \in CfbSucceeded <=> HasFile(full[id], FullPayloadName(m, enc))
                    /\ i \in CfbSucceeded <=> load.err = NoErr

\* The CreateModuleBackup call that returned last had a target and its export
\* failed / succeeded.
CmbExportFailed ==
    ret.op = "CreateModuleBackup" /\ ret.called /\ ret.export.err # NoErr

CmbExportOk ==
    ret.op = "CreateModuleBackup" /\ ret.called /\ ret.export.err = NoErr

\* C6 (as claimed): when the export fails, CreateModuleBackup leaves a failed
\* metadata record in the store: GetBackup on the returned id yields it,
\* ListBackups includes it, and loading its payload fails.
C6_FailedRecordStored ==
    CmbExportFailed =>
        LET b == ret.resp.Backup
        IN  /\ b.Status = "failed"
            /\ GetModuleBackup(modules, b.Id).err = NoErr
            /\ GetModuleBackup(modules, b.Id).info = b
            /\ LET listed == ListModuleBackups(modules, "", NilTenant, FALSE).backups
               IN  \E k \in 1..Len(listed) : listed[k] = b
            /\ LoadModuleBackupData(modules, b.Id, ret.req.Password).err # NoErr

\* C7: a failed export never makes CreateModuleBackup return an error: it
\* returns a record with status failed, an id never minted before and the error
\* text as its warning; the call returns an error and no record exactly when
\* the export succeeded and SaveModuleBackup failed.
C7_ExportFailureIsARecord ==
    /\ CmbExportFailed =>
        /\ ret.err = NoErr
        /\ ret.resp.Backup.Status = "failed"
        /\ ret.resp.Backup.Id \notin ret.minted
        /\ Len(ret.resp.Backup.Warnings) >= 1
        /\ ret.resp.Backup.Warnings[1] = ret.export.err
    /\ CmbExportOk =>
        /\ ret.err # NoErr <=> ret.fault # NoFault
        /\ ret.err # NoErr => ret.resp = NilResp
        /\ ret.err = NoErr => ret.resp.Backup.Status = "completed"

\* C7 witness: an export failed and the call returned a failed record.
C7_Witness ==
    /\ CmbExportFailed
    /\ ret.err = NoErr
    /\ ret.resp.Backup.Status = "failed"

\* C8: a payload saved under a password is read back unchanged under the same
\* password (empty or not), for a module backup and for each module payload
\* of a full backup.
C8_RoundTrip ==
    /\ ( /\ ret.op = "LoadModuleBackupData"
         /\ saved[ret.id].kind = "module"
         /\ ret.password = saved[ret.id].password )
       => (ret.out.err = NoErr /\ ret.out.data = saved[ret.id].data)
    /\ ( /\ ret.op = "LoadFullBackupModuleData"
         /\ saved[ret.id].kind = "full"
         /\ ret.moduleID \in DOMAIN saved[ret.id].data
         /\ ret.password = saved[ret.id].password )
       => (ret.out.err = NoErr /\ ret.out.data = saved[ret.id].data[ret.moduleID])

\* C8 witness: an encrypted module payload of two bytes was read back.
C8_Witness ==
    /\ ret.op = "LoadModuleBackupData"
    /\ saved[ret.id].kind = "module"
    /\ ret.password = "pw"
    /\ saved[ret.id].password = "pw"
    /\ ret.out.data = <<7, 8>>

\* The decoded length of a module backup's payload file, read with the key it
\* was sealed under; -1 when there is no payload file or it does not decode.
ModulePayloadLength(dir) ==
    LET file == IF HasFile(dir, "data.json.gz.enc") THEN dir.files["data.json.gz.enc"]
                ELSE IF HasFile(dir, "data.json.gz") THEN dir.files["data.json.gz"]
                ELSE TornFile
        inner == IF file.kind = "enc" THEN file.sealed ELSE file
    IN  IF gzipDecompress(inner).err = NoErr THEN Len(gzipDecompress(inner).data) ELSE -1

\* C9 (as claimed): in every reachable store, every persisted module record
\* with status completed has a payload whose decoded length is its sizeBytes.
C9_CompletedHasPayload ==
    \A id \in BackupIds :
        LET meta == readModuleMetadata(modules, id)
        IN  (meta.err = NoErr /\ meta.info.Status = "completed")
                => ModulePayloadLength(modules[id]) = meta.info.SizeBytes

\* A read was rejected for want of a password, with no data and no decryption.
RejectedNoPassword(out) ==
    /\ IsPasswordRequired(out.err)
    /\ out.data = <<>>
    /\ ~out.decrypted

\* C10: reading a backup whose payload is stored as the encrypted envelope
\* with an empty password is rejected with the password-required error, returns
\* no data and never calls the decryption: DownloadBackup, LoadModuleBackupData
\* and LoadFullBackupModuleData.
C10_EmptyPasswordRejected ==
    /\ ( /\ ret.op \in {"LoadModuleBackupData", "DownloadBackup"}
         /\ ret.password = ""
         /\ HasFile(modules[ret.id], "data.json.gz.enc") )
       => RejectedNoPassword(ret.out)
    /\ ( /\ ret.op = "LoadFullBackupModuleData"
         /\ ret.password = ""
         /\ HasFile(full[ret.id], FullPayloadName(ret.moduleID, TRUE)) )
       => RejectedNoPassword(ret.out)

\* C10 witness: a download of an encrypted backup without password was refused.
C10_Witness ==
    /\ ret.op = "DownloadBackup"
    /\ ret.password = ""
    /\ saved[ret.id].kind = "module"
    /\ saved[ret.id].password # ""
    /\ RejectedNoPassword(ret.out)

\* C11: a payload sealed under a password and read with another non-empty
\* password yields the bad-password error and no data, for a module backup (by
\* load or download) and for a module payload of a full backup.
C11_WrongPasswordRejected ==
    /\ ( /\ ret.op \in {"LoadModuleBackupData", "DownloadBackup"}
         /\ saved[ret.id].kind = "module"
         /\ saved[ret.id].password # ""
         /\ ret.password \notin {"", saved[ret.id].password} )
       => (IsBadPassword(ret.out.err) /\ ret.out.data = <<>>)
    /\ ( /\ ret.op = "LoadFullBackupModuleData"
         /\ saved[ret.id].kind = "full"
         /\ ret.moduleID \in DOMAIN saved[ret.id].data
         /\ saved[ret.id].password # ""
         /\ ret.password \notin {"", saved[ret.id].password} )
       => (IsBadPassword(ret.out.err) /\ ret.out.data = <<>>)

\* C11 witness: a module payload sealed under "pw" was read with "other".
C11_Witness ==
    /\ ret.op = "LoadModuleBackupData"
    /\ saved[ret.id].kind = "module"
    /\ saved[ret.id].password = "pw"
    /\ ret.password = "other"
    /\ IsBadPassword(ret.out.err)

\* C12 (as claimed, for the backups whose save returned without error): every
\* persisted BackupInfo, a module record or a completed moduleBackups entry of
\* a manifest, has encrypted = TRUE iff its payload file is the .enc envelope,
\* which is so iff a password was given at creation.
C12_EncryptedMirrorsEnvelope ==
    \A id \in BackupIds :
        /\ saved[id].kind = "module" =>
              LET info == readModuleMetadata(modules, id).info
              IN  /\ info.Encrypted <=> HasFile(modules[id], ModulePayloadName(TRUE))
                  /\ info.Encrypted <=> saved[id].password # ""
        /\ saved[id].kind = "full" =>
              LET info == readFullMetadata(full, id).info
              IN  \A i \in 1..Len(info.ModuleBackups) :
                    LET mb == info.ModuleBackups[i]
                    IN  mb.Status = "completed" =>
                          /\ mb.Encrypted <=>
                                HasFile(full[id], FullPayloadName(mb.ModuleId, TRUE))
                          /\ mb.Encrypted <=> saved[id].password # ""

\* The RestoreModuleBackup call that returned last had a target.
RmbCalled == ret.op = "RestoreModuleBackup" /\ ret.req.Target # NilTarget

\* The payload load of the RestoreModuleBackup call that returned last (the
\* call leaves the store as it was).
RmbLoad == LoadModuleBackupData(modules, ret.req.BackupId, ret.req.Password)

\* C16: RestoreModuleBackup returns an error and no response whenever the
\* payload load fails or the ImportBackup call fails; after a failed load no
\* ImportBackup call is made; the call never changes the store.
C16_RestoreFailureIsError ==
    [][ ret'.op = "RestoreModuleBackup" =>
          /\ modules' = modules /\ full' = full
          /\ ret'.req.Target # NilTarget =>
                LET load == LoadModuleBackupData(modules, ret'.req.BackupId,
                                                 ret'.req.Password)
                IN  /\ load.err # NoErr =>
                          (ret'.err # NoErr /\ ret'.resp = <<>> /\ ret'.imports = <<>>)
                    /\ load.err = NoErr =>
                          /\ Len(ret'.imports) = 1
                          /\ ret'.imports[1].data = load.data
                          /\ ret'.imports[1].err # NoErr =>
                                (ret'.err # NoErr /\ ret'.resp = <<>>)
                          /\ ret'.imports[1].err = NoErr =>
                                (ret'.err = NoErr
                                 /\ ret'.resp.Success = ret'.imports[1].success) ]_vars

\* C16 witness: the load succeeded, the import failed and the call returned
\* an error.
C16_Witness ==
    /\ RmbCalled
    /\ RmbLoad.err = NoErr
    /\ Len(ret.imports) = 1
    /\ ret.imports[1].err # NoErr
    /\ ret.err # NoErr

\* The RestoreFullBackup call that returned last had targets and a readable
\* manifest.
RfbRan ==
    /\ ret.op = "RestoreFullBackup"
    /\ Len(ret.req.Targets) > 0
    /\ GetFullBackup(full, ret.req.BackupId).err = NoErr

IsCompleted(mb) == mb.Status = "completed"

\* The completed entries of the manifest that call restored, in manifest order.
RfbCompleted ==
    SelectSeq(GetFullBackup(full, ret.req.BackupId).info.ModuleBackups, IsCompleted)

RfbTargetModules == {ret.req.Targets[i].ModuleId : i \in 1..Len(ret.req.Targets)}

RfbLoad(m) == LoadFullBackupModuleData(full, ret.req.BackupId, m, ret.req.Password)

ErrNoTarget == <<"no target endpoint provided for this module">>

\* C13 (as claimed): the success flag of RestoreFullBackup is the conjunction
\* of the success flags of the module results it returns, a module whose
\* import returned success = false without error included; it is true with no
\* result when the manifest has only failed entries.
C13_SuccessIsConjunction ==
    RfbRan =>
        /\ ret.err = NoErr
        /\ ret.resp.Success <=>
              \A k \in 1..Len(ret.resp.ModuleResults) : ret.resp.ModuleResults[k].Success
        /\ RfbCompleted = <<>> => (ret.resp.Success /\ ret.resp.ModuleResults = <<>>)

\* C14: every completed manifest module without a target in the request gets
\* the result success = false with the no-target error, makes the overall
\* success false and is sent no ImportBackup; the completed modules that have
\* a target are still loaded and imported.
C14_MissingTargetRecorded ==
    RfbRan =>
        /\ ret.err = NoErr
        /\ Len(ret.resp.ModuleResults) = Len(RfbCompleted)
        /\ \A k \in 1..Len(RfbCompleted) :
              LET m == RfbCompleted[k].ModuleId
                  r == ret.resp.ModuleResults[k]
              IN  /\ m \notin RfbTargetModules =>
                        /\ r = ModuleRestoreResult(m, FALSE, ErrNoTarget)
                        /\ ~ret.resp.Success
                        /\ \A c \in 1..Len(ret.imports) :
                              ret.imports[c].target.ModuleId # m
                  /\ m \in RfbTargetModules =>
                        /\ r.ModuleId = m
                        /\ r.Error # ErrNoTarget
                        /\ RfbLoad(m).err = NoErr =>
                              \E c \in 1..Len(ret.imports) :
                                  /\ ret.imports[c].target.ModuleId = m
                                  /\ ret.imports[c].data = RfbLoad(m).data

\* C14 witness: one completed module had no target, another was imported.
C14_Witness ==
    /\ RfbRan
    /\ Len(ret.resp.ModuleResults) = 2
    /\ \E k \in 1..2 : ret.resp.ModuleResults[k].Error = ErrNoTarget
    /\ Len(ret.imports) = 1
    /\ ret.imports[1].err = NoErr

\* The completed entries that reach ImportBackup: target given, payload loaded.
RfbImported ==
    {k \in 1..Len(RfbCompleted) :
        /\ RfbCompleted[k].ModuleId \in RfbTargetModules
        /\ RfbLoad(RfbCompleted[k].ModuleId).err = NoErr}

\* C15: with targets and a readable manifest RestoreFullBackup returns no
\* error and one result per completed manifest entry, in manifest order, none
\* for failed entries; a missing target, a failed load or a failed import is
\* recorded in that module's result and later modules are still processed.
C15_OneResultPerCompletedEntry ==
    RfbRan =>
        /\ ret.err = NoErr
        /\ Len(ret.resp.ModuleResults) = Len(RfbCompleted)
        /\ Len(ret.imports) = Cardinality(RfbImported)
        /\ \A k \in 1..Len(RfbCompleted) :
              LET m == RfbCompleted[k].ModuleId
                  r == ret.resp.ModuleResults[k]
                  nth == Cardinality({j \in RfbImported : j <= k})
              IN  /\ r.ModuleId = m
                  /\ m \notin RfbTargetModules => (~r.Success /\ r.Error = ErrNoTarget)
                  /\ (m \in RfbTargetModules /\ RfbLoad(m).err # NoErr) =>
                        (~r.Success /\ r.Error = Wrap("load data", RfbLoad(m).err))
                  /\ k \in RfbImported =>
                        /\ ret.imports[nth].target.ModuleId = m
                        /\ ret.imports[nth].err # NoErr =>
                              (~r.Success /\ r.Error = ret.imports[nth].err)
                        /\ ret.imports[nth].err = NoErr =>
                              (r.Success = ret.imports[nth].success /\ r.Error = NoErr)

\* C15 witness: the import of the first module failed and the second module
\* was restored after it.
C15_Witness ==
    /\ RfbRan
    /\ Len(ret.resp.ModuleResults) = 2
    /\ Len(ret.imports) = 2
    /\ ret.imports[1].err # NoErr
    /\ ~ret.resp.ModuleResults[1].Success
    /\ ret.resp.ModuleResults[2].Success

\* C17: CreateFullBackup and RestoreFullBackup with an empty target list
\* return the argument error and nothing else: no export task is started, no
\* ImportBackup is called, the error does not depend on the manifest (it is
\* not read) and the store is left as it was.
C17_EmptyTargetsRejected ==
    [][ (ret'.op \in {"CreateFullBackup", "RestoreFullBackup"}
         /\ Len(ret'.req.Targets) = 0) =>
          /\ ret'.err = <<"at least one target is required">>
          /\ modules' = modules /\ full' = full /\ nextId' = nextId
          /\ cfb' = IdleCfb
          /\ ret'.op = "CreateFullBackup" => (ret'.resp = NilResp /\ ret'.results = <<>>)
          /\ ret'.op = "RestoreFullBackup" => (ret'.resp = <<>> /\ ret'.imports = <<>>)
      ]_vars

\* C17 witness: a restore with no target was rejected although the id names
\* no readable manifest.
C17_Witness ==
    /\ ret.op = "RestoreFullBackup"
    /\ Len(ret.req.Targets) = 0
    /\ GetFullBackup(full, ret.req.BackupId).err # NoErr
    /\ ret.err = <<"at least one target is required">>

\* A list call whose directory read succeeded has returned (or faulted).
ListRan == ret.op \in {"ListBackups", "ListFullBackups"} /\ ~ret.readDirErr

\* The ids of the stored backups the call in ret matches: those whose
\* metadata reads back, of the requested module when one is named.
ListMatching ==
    IF ret.op = "ListBackups"
    THEN {id \in BackupIds :
            /\ readModuleMetadata(modules, id).err = NoErr
            /\ (ret.req.ModuleId = ""
                \/ readModuleMetadata(modules, id).info.ModuleId = ret.req.ModuleId)}
    ELSE {id \in BackupIds : readFullMetadata(full, id).err = NoErr}

\* page and pageSize as the specification normalizes them.
SpecPage(page) == IF page <= 0 THEN 1 ELSE page

SpecPageSize(pageSize) ==
    IF pageSize <= 0 THEN 20 ELSE IF pageSize > 100 THEN 100 ELSE pageSize

\* (page-1)*pageSize >= total over the integers, for page >= 1, pageSize in
\* 1..100 and a total below the int32 range minus 100.
StartAtOrBeyond(page, pageSize, total) ==
    page - 1 >= (total + pageSize - 1) \div pageSize

\* C18 (as claimed): for every page and pageSize of the int32 range a list call
\* never faults on its slice, returns the count of all matching backups as
\* total, and returns an empty page whenever (page-1)*pageSize, after
\* normalization, is at or beyond that total.
C18_TotalAndEmptyPage ==
    ListRan =>
        /\ ~ret.out.panic
        /\ ret.out.err = NoErr
        /\ ret.out.resp.Total = Cardinality(ListMatching)
        /\ (StartAtOrBeyond(SpecPage(ret.req.Page), SpecPageSize(ret.req.PageSize),
                            Cardinality(ListMatching))
              => ret.out.resp.Backups = <<>>)

RECURSIVE PagesFrom(_, _, _, _)
\* The pages page, page+1, ... of ListBackups on a store, concatenated up to
\* the first empty one (a client that walks the listing; no store holds more
\* pages than backups).
PagesFrom(store, moduleId, pageSize, page) ==
    LET out == ListBackupsHandler(store, [ModuleId |-> moduleId,
                                          TenantId |-> NilTenant, Page |-> page,
                                          PageSize |-> pageSize], FALSE)
    IN  IF out.resp.Backups = <<>> \/ page > Len(store) + 1
        THEN <<>>
        ELSE out.resp.Backups \o PagesFrom(store, moduleId, pageSize, page + 1)

\* The ids of the readable module backups of moduleId (of all when empty).
MatchingModuleBackups(moduleId) ==
    {id \in BackupIds :
        /\ readModuleMetadata(modules, id).err = NoErr
        /\ (moduleId = "" \/ readModuleMetadata(modules, id).info.ModuleId = moduleId)}

\* ListBackups has returned for a request with a pageSize in 1..100.
ListBackupsRan ==
    ret.op = "ListBackups" /\ ~ret.readDirErr /\ ret.req.PageSize \in 1..100

\* C19: on an unchanged store and for a pageSize in 1..100, no page of
\* ListBackups faults or holds more than pageSize items, and pages 1, 2, 3, ...
\* up to the first empty page concatenate to the full listing: every matching
\* backup once, newest first, in the order of the unpaginated list.  Of 45
\* items, page 2 of size 20 is the items at 0-based positions 20..39, total 45.
C19_PagesPartitionTheList ==
    /\ ListBackupsRan =>
         LET moduleId == ret.req.ModuleId
             pageSize == ret.req.PageSize
             all == PagesFrom(modules, moduleId, pageSize, 1)
             PageAt(p) == ListBackupsHandler(modules, [ModuleId |-> moduleId,
                                                       TenantId |-> NilTenant, Page |-> p,
                                                       PageSize |-> pageSize], FALSE)
         IN  /\ \A p \in 1..(MaxBackups + 1) :
                  /\ ~PageAt(p).panic
                  /\ PageAt(p).err = NoErr
                  /\ Len(PageAt(p).resp.Backups) <= pageSize
                  /\ PageAt(p).resp.Total = Cardinality(MatchingModuleBackups(moduleId))
             /\ all = ListModuleBackups(modules, moduleId, NilTenant, FALSE).backups
             /\ Len(all) = Cardinality(MatchingModuleBackups(moduleId))
             /\ {all[i].Id : i \in 1..Len(all)} = MatchingModuleBackups(moduleId)
             /\ \A i \in 1..Len(all) : all[i] = readModuleMetadata(modules, all[i].Id).info
             /\ \A i, j \in 1..Len(all) : i < j => all[i].CreatedAt >= all[j].CreatedAt
             /\ ret.req.Page \in 1..(MaxBackups + 1) => ret.out = PageAt(ret.req.Page)
             /\ ~ret.out.panic => Len(ret.out.resp.Backups) <= pageSize
    /\ LET page2 == Paginate([i \in 1..45 |-> i - 1], 2, 20)
       IN  /\ ~page2.panic
           /\ page2.Backups = [i \in 1..20 |-> 19 + i]
           /\ page2.Total = 45

\* A second page that holds the older of two backups has been returned.
C19_Witness ==
    /\ ret.op = "ListBackups"
    /\ ~ret.readDirErr
    /\ ret.req.ModuleId = ""
    /\ ret.req.Page = 2
    /\ ret.req.PageSize = 1
    /\ ret.out.resp.Total = 2
    /\ Len(ret.out.resp.Backups) = 1
    /\ ret.out.resp.Backups[1].Id = 2
    /\ ret.out.resp.Backups[1].CreatedAt = 1

\* The call in ret, repeated with other pagination inputs.
ListAgain(page, pageSize) ==
    LET req == [ret.req EXCEPT !.Page = page, !.PageSize = pageSize]
    IN  IF ret.op = "ListBackups"
        THEN ListBackupsHandler(modules, req, FALSE)
        ELSE ListFullBackupsHandler(full, req, FALSE)

\* C20: the page and pageSize a list call works with are the request's after
\* normalization (page <= 0 becomes 1, pageSize <= 0 becomes 20, pageSize > 100
\* becomes 100, any other value is kept), and the call answers as it does for
\* the normalized values.
C20_InputsNormalized ==
    ListRan =>
        /\ ret.out.norm.page = (IF ret.req.Page <= 0 THEN 1 ELSE ret.req.Page)
        /\ ret.out.norm.pageSize = (CASE ret.req.PageSize <= 0 -> 20
                                      [] ret.req.PageSize > 100 -> 100
                                      [] OTHER -> ret.req.PageSize)
        /\ ret.out = ListAgain(SpecPage(ret.req.Page), SpecPageSize(ret.req.PageSize))

\* A call with page 0 and pageSize 101 has returned both stored backups.
C20_Witness ==
    /\ ListRan
    /\ ret.req.Page = 0
    /\ ret.req.PageSize = 101
    /\ ret.out.norm = [page |-> 1, pageSize |-> 100]
    /\ Len(ret.out.resp.Backups) = 2

\* The ids of the stored backups whose metadata reads back and that pass the
\* filters of the list call in ret.
FilterMatching ==
    IF ret.op = "ListBackups"
    THEN {id \in BackupIds :
            /\ readModuleMetadata(modules, id).err = NoErr
            /\ (ret.req.ModuleId # ""
                  => readModuleMetadata(modules, id).info.ModuleId = ret.req.ModuleId)
            /\ (~ret.req.TenantId.nil
                  => readModuleMetadata(modules, id).info.TenantId = ret.req.TenantId.value)}
    ELSE {id \in BackupIds :
            /\ readFullMetadata(full, id).err = NoErr
            /\ (~ret.req.TenantId.nil
                  => readFullMetadata(full, id).info.TenantId = ret.req.TenantId.value)}

\* The stored metadata of the backup the list call in ret is about.
StoredInfo(id) ==
    IF ret.op = "ListBackups"
    THEN readModuleMetadata(modules, id).info
    ELSE readFullMetadata(full, id).info

\* C21: a list call whose directory read succeeds returns, without error,
\* exactly the backups whose metadata is readable and that match its filters,
\* each once and as stored: a non-empty moduleId keeps the records of that
\* module, a supplied tenantId those of exactly that tenant (0 included), an
\* absent one all; unreadable entries are left out and hide nothing.
C21_ListKeepsMatchingReadable ==
    ListRan =>
        LET got == ret.out.resp.Backups
        IN  /\ ret.out.err = NoErr
            /\ ~ret.out.panic
            /\ {got[i].Id : i \in 1..Len(got)} = FilterMatching
            /\ Len(got) = Cardinality(FilterMatching)
            /\ \A i \in 1..Len(got) : got[i] = StoredInfo(got[i].Id)

\* ListBackups for tenant 0 has returned one of two stored backups, the other
\* being of tenant 5.
C21_Witness ==
    /\ ret.op = "ListBackups"
    /\ ~ret.readDirErr
    /\ ret.req.ModuleId = ""
    /\ ret.req.TenantId = SomeTenant(0)
    /\ Len(ret.out.resp.Backups) = 1
    /\ \E id \in BackupIds :
         /\ readModuleMetadata(modules, id).err = NoErr
         /\ readModuleMetadata(modules, id).info.TenantId = 5

\* What the storage lists for the list call in ret.
ListedFor ==
    IF ret.op = "ListBackups"
    THEN ListModuleBackups(modules, ret.req.ModuleId, ret.req.TenantId, FALSE).backups
    ELSE ListFullBackups(full, ret.req.TenantId, FALSE).backups

\* s is ordered by createdAt, newest first.
NewestFirst(s) == \A i, j \in 1..Len(s) : i < j => s[i].CreatedAt >= s[j].CreatedAt

\* C22: what ListModuleBackups and ListFullBackups return, and so every page
\* cut from it, is ordered by createdAt descending.
C22_ListedNewestFirst ==
    ListRan => NewestFirst(ListedFor) /\ NewestFirst(ret.out.resp.Backups)

\* A listing whose newer backup was created second, so that the directory
\* order had to be reversed.
C22_Witness ==
    /\ ListRan
    /\ Len(ListedFor) = 2
    /\ ListedFor[1].Id = 2
    /\ ListedFor[1].CreatedAt = 2
    /\ ListedFor[2].Id = 1
    /\ ListedFor[2].CreatedAt = 1
    /\ ret.out.resp.Backups = ListedFor

\* err is the not-found error of a delete, as the handlers wrap it.
IsNotFound(err) ==
    err \in {<<"delete backup", "backup not found">>,
             <<"delete full backup", "full backup not found">>}

\* C23: a delete of an id whose directory does not exist returns a not-found
\* error and changes nothing in the store, and after a successful delete the
\* directory is gone, so that a second delete of the id is such a call.
C23_DeleteMissingIsNotFound ==
    [][/\ (ret'.op = "DeleteBackup" /\ ret' # ret /\ ~modules[ret'.id].exists)
            => /\ IsNotFound(ret'.err)
               /\ UNCHANGED <<modules, full, nextId, cfb, saved>>
       /\ (ret'.op = "DeleteFullBackup" /\ ret' # ret /\ ~full[ret'.id].exists)
            => /\ IsNotFound(ret'.err)
               /\ UNCHANGED <<modules, full, nextId, cfb, saved>>
       /\ (ret'.op = "DeleteBackup" /\ ret' # ret /\ ret'.err = NoErr)
            => /\ ~modules'[ret'.id].exists
               /\ IsNotFound(Wrap("delete backup",
                                  DeleteModuleBackup(modules', ret'.id).err))
       /\ (ret'.op = "DeleteFullBackup" /\ ret' # ret /\ ret'.err = NoErr)
            => /\ ~full'[ret'.id].exists
               /\ IsNotFound(Wrap("delete full backup",
                                  DeleteFullBackup(full', ret'.id).err))]_vars

\* A delete has answered not-found for the id a create call of this run was
\* given, whose directory is not there.
C23_Witness ==
    /\ ret.op = "DeleteBackup"
    /\ IsNotFound(ret.err)
    /\ ret.id = MaxBackups
    /\ nextId > MaxBackups
    /\ ~modules[ret.id].exists

\* ---------------------------------------------------------------- frame conditions
\* A client that finds backups of earlier calls in the store and has the last
\* id left to mint.
InitFrame ==
    /\ nextId = MaxBackups
    /\ cfb = IdleCfb
    /\ ret = [op |-> "none"]
    /\ run = IdleRun
    /\ \E s \in StoresAfter(MaxBackups - 1, {NilTenant}, {1}, FillEnvs) :
         /\ modules = s.modules
         /\ full = s.full
         /\ saved = s.saved

\* No call has been made yet, or the last call was a create.
AfterCreate == ret.op \in {"none", "CreateModuleBackup", "CreateFullBackup"}

\* The CreateFullBackup requests that name at most one target.
OneTargetRequests == {r \in CreateFullBackupRequests : Len(r.Targets) <= 1}

\* Any one call on such a store, or a create call and a delete after it.
NextFrame ==
    \/ ret.op = "none" /\ CreateModuleBackupFrom(CreateModuleBackupRequests, FillEnvs)
    \/ ret.op = "none" /\ CreateFullBackupStartFrom(OneTargetRequests)
    \/ ExportTaskFrom(FillEnvs)
    \/ CreateFullBackupFinish
    \/ ret.op = "none" /\ DownloadBackup
    \/ ret.op = "none" /\ LoadModuleData
    \/ ret.op = "none" /\ LoadFullModuleData
    \/ AfterCreate /\ DeleteBackup
    \/ AfterCreate /\ DeleteFullBackupOp
    \/ ret.op = "none" /\ RestoreModuleBackup
    \/ ret.op = "none" /\ RestoreFullBackup
    \/ ret.op = "none" /\ ListBackupsFrom(ListBackupsRequestsOf({NilTenant}, {1}, {100}))
    \/ ret.op = "none" /\ ListFullBackupsFrom(ListFullBackupsRequestsOf({NilTenant}, {1}, {100}))

SpecFrame == InitFrame /\ [][NextFrame]_vars

\* Something of module backup id can be seen through a Get, a Load or a List.
ModuleBackupObservableIn(store, id) ==
    \/ store[id].exists
    \/ GetModuleBackup(store, id).err = NoErr
    \/ \E p \in ReadPasswords : LoadModuleBackupData(store, id, p).err = NoErr
    \/ LET listed == ListModuleBackups(store, "", NilTenant, FALSE).backups
       IN  \E k \in 1..Len(listed) : listed[k].Id = id

ModuleBackupObservable(id) == ModuleBackupObservableIn(modules, id)

\* Something of full backup id can be seen through a Get, a Load or a List.
FullBackupObservableIn(store, id) ==
    \/ store[id].exists
    \/ GetFullBackup(store, id).err = NoErr
    \/ \E m \in ModuleIds, p \in ReadPasswords :
         LoadFullBackupModuleData(store, id, m, p).err = NoErr
    \/ LET listed == ListFullBackups(store, NilTenant, FALSE).backups
       IN  \E k \in 1..Len(listed) : listed[k].Id = id

FullBackupObservable(id) == FullBackupObservableIn(full, id)

\* The delete of module backup id has just succeeded.
DeletedModuleBackup(id) == ret.op = "DeleteBackup" /\ ret.id = id /\ ret.err = NoErr

DeletedFullBackup(id) == ret.op = "DeleteFullBackup" /\ ret.id = id /\ ret.err = NoErr

\* The id was handed out by an earlier call and no call in flight holds it.
MintedAndSettled(id) ==
    /\ id < nextId
    /\ ~(cfb.pc # "idle" /\ cfb.backupID = id)

\* C24: a successful delete leaves nothing of the backup to Get, Load or List
\* and leaves every other backup as it was; and the deleted state is terminal:
\* no step that changes a store makes an id observable again that was handed
\* out earlier and has nothing observable left.
C24_DeleteIsTotalAndTerminal ==
    [][/\ (ret'.op = "DeleteBackup" /\ ret' # ret /\ ret'.err = NoErr)
            => /\ modules'[ret'.id] = NoDir
               /\ ~ModuleBackupObservableIn(modules', ret'.id)
               /\ \A o \in BackupIds \ {ret'.id} : modules'[o] = modules[o]
               /\ full' = full
       /\ (ret'.op = "DeleteFullBackup" /\ ret' # ret /\ ret'.err = NoErr)
            => /\ full'[ret'.id] = NoDir
               /\ ~FullBackupObservableIn(full', ret'.id)
               /\ \A o \in BackupIds \ {ret'.id} : full'[o] = full[o]
               /\ modules' = modules
       /\ \A id \in BackupIds :
            /\ (DeletedModuleBackup(id) \/ DeletedFullBackup(id)) => MintedAndSettled(id)
            /\ (modules' # modules /\ MintedAndSettled(id)
                   /\ ~ModuleBackupObservable(id))
                 => ~ModuleBackupObservableIn(modules', id)
            /\ (full' # full /\ MintedAndSettled(id)
                   /\ ~FullBackupObservable(id))
                 => ~FullBackupObservableIn(full', id)]_vars

\* The module backup this client created has been deleted while the store
\* holds the backup of an earlier call.
C24_Witness ==
    /\ DeletedModuleBackup(MaxBackups)
    /\ ~ModuleBackupObservable(MaxBackups)
    /\ \E o \in BackupIds \ {MaxBackups} :
         ModuleBackupObservable(o) \/ FullBackupObservable(o)

\* The step is the successful delete of id on the module store.
DeletesModuleBackup(id) ==
    ret'.op = "DeleteBackup" /\ ret'.id = id /\ ret'.err = NoErr /\ ret' # ret

DeletesFullBackup(id) ==
    ret'.op = "DeleteFullBackup" /\ ret'.id = id /\ ret'.err = NoErr /\ ret' # ret

\* C25: whatever a returned create call stored for an id (metadata and payload
\* files) is left as it is by every step of every later call: list, download,
\* load, restore, the creation and the deletion of other backups; only the
\* delete of that id changes it.
C25_StoredBackupsImmutable ==
    [][\A id \in BackupIds :
         /\ (MintedAndSettled(id) /\ modules[id].exists /\ ~DeletesModuleBackup(id))
              => /\ modules'[id] = modules[id]
                 /\ GetModuleBackup(modules', id) = GetModuleBackup(modules, id)
         /\ (MintedAndSettled(id) /\ full[id].exists /\ ~DeletesFullBackup(id))
              => /\ full'[id] = full[id]
                 /\ GetFullBackup(full', id) = GetFullBackup(full, id)]_vars

\* A CreateFullBackup call has stored its backup next to the completed module
\* backup of an earlier call.
C25_Witness ==
    /\ ret.op = "CreateFullBackup"
    /\ ret.err = NoErr
    /\ full[MaxBackups].exists
    /\ \E o \in BackupIds \ {MaxBackups} :
         /\ saved[o].kind = "module"
         /\ GetModuleBackup(modules, o).err = NoErr

\* Some password opens the payload of module backup id.
ModulePayloadLoads(id) ==
    \E p \in ReadPasswords : LoadModuleBackupData(modules, id, p).err = NoErr

\* Some password opens the payload stored for module m in full backup id.
FullPayloadLoads(id, m) ==
    \E p \in ReadPasswords : LoadFullBackupModuleData(full, id, m, p).err = NoErr

\* C26 (as claimed): in every state a Get, List or Load can run in, also while
\* a create call is in flight, a backup is seen not at all or complete: its
\* metadata is readable exactly when its payload loads, and a readable
\* manifest comes with the payload of each of its completed entries.
C26_NoPartialBackupObservable ==
    \A id \in BackupIds :
        /\ (GetModuleBackup(modules, id).err = NoErr) <=> ModulePayloadLoads(id)
        /\ (\E m \in ModuleIds : FullPayloadLoads(id, m))
              => GetFullBackup(full, id).err = NoErr
        /\ (GetFullBackup(full, id).err = NoErr)
              => LET entries == GetFullBackup(full, id).info.ModuleBackups
                 IN  \A k \in 1..Len(entries) :
                        entries[k].Status = "completed"
                           => FullPayloadLoads(id, entries[k].ModuleId)

\* ---------------------------------------------------------------- tenant of a backup
\* The create calls of clients that name no tenant, tenant 0 or another tenant,
\* while a module is unreachable or answers for some tenant.
NextTenant ==
    \/ CreateModuleBackupFrom(CreateModuleBackupRequestsOf(OptionalTenants),
                              FillEnvsOf(TenantIds))
    \/ CreateFullBackupStartFrom(CreateFullBackupRequestsOf(OptionalTenants))
    \/ ExportTaskFrom(FillEnvsOf(TenantIds))
    \/ CreateFullBackupFinish

SpecTenant == InitLast /\ [][NextTenant]_vars

\* The request asks for a tenant-agnostic backup: tenantId 0 or absent.
TenantAgnostic(tid) == tid.nil \/ tid.value = 0

\* C27 (as claimed): every BackupInfo and FullBackupInfo a create call returns,
\* the entries of a manifest included, has fullBackup set exactly when the
\* request's tenantId is 0 or absent.
C27_FullBackupIffTenantAgnostic ==
    /\ (ret.op = "CreateModuleBackup" /\ ret.called /\ ret.err = NoErr)
          => (ret.resp.Backup.FullBackup <=> TenantAgnostic(ret.req.TenantId))
    /\ (ret.op = "CreateFullBackup" /\ ret.err = NoErr)
          => /\ ret.resp.Backup.FullBackup <=> TenantAgnostic(ret.req.TenantId)
             /\ \A k \in 1..Len(ret.resp.Backup.ModuleBackups) :
                   ret.resp.Backup.ModuleBackups[k].FullBackup
                      <=> TenantAgnostic(ret.req.TenantId)

\* ---------------------------------------------------------------- forwarded metadata
\* gRPC metadata: header name -> list of values.  A header value and the text
\* of a number are sequences of characters.
TenantHeader == "x-md-global-tenant-id"

\* The keys forwardMetadata copies, in the order of its loop.
ForwardedKeys == <<"x-md-global-user-id", "x-md-global-username", "x-md-global-roles">>

Digits == <<"0", "1", "2", "3", "4", "5", "6", "7", "8", "9">>

RECURSIVE FormatDecimal(_)
\* fmt.Sprintf("%d", n) of an unsigned n.
FormatDecimal(n) ==
    IF n < 10 THEN <<Digits[n + 1]>>
    ELSE Append(FormatDecimal(n \div 10), Digits[(n % 10) + 1])

\* MD.Get: the values of a key, none when the key is absent.
MDGet(md, key) == IF key \in DOMAIN md THEN md[key] ELSE <<>>

\* MD.Set: the key now has exactly these values.
MDSet(md, key, vals) == (key :> vals) @@ md

RECURSIVE ForwardKeysAllValues(_, _, _)
\* Mutant: every value of a forwarded key is copied.
ForwardKeysAllValues(outMD, inMD, n) ==
    IF n = 0 THEN outMD
    ELSE LET done == ForwardKeysAllValues(outMD, inMD, n - 1)
             vals == MDGet(inMD, ForwardedKeys[n])
         IN  IF Len(vals) > 0 THEN MDSet(done, ForwardedKeys[n], vals) ELSE done

RECURSIVE ForwardKeys(_, _, _)
\* The loop over the first n forwarded keys.
ForwardKeys(outMD, inMD, n) ==
    IF n = 0 THEN outMD
    ELSE LET done == ForwardKeys(outMD, inMD, n - 1)
             vals == MDGet(inMD, ForwardedKeys[n])
         IN  IF Len(vals) > 0 THEN MDSet(done, ForwardedKeys[n], <<vals[1]>>) ELSE done

\* The outgoing metadata of the context forwardMetadata returns.  ctx.tenantID
\* is grpcx.GetTenantIDFromContext(ctx); ctx.hasMD is the ok of
\* metadata.FromIncomingContext and ctx.md the incoming metadata.
forwardMetadata(ctx) ==
    LET outMD == (TenantHeader :> <<FormatDecimal(ctx.tenantID)>>)
    IN  IF ctx.hasMD THEN ForwardKeys(outMD, ctx.md, Len(ForwardedKeys)) ELSE outMD

\* Tenant ids the incoming context may carry.
ContextTenantIds == {0, 5, 1090, MaxInt32}

\* Headers a caller may send, forwarded or not.
IncomingHeaders ==
    {ForwardedKeys[i] : i \in 1..Len(ForwardedKeys)} \cup {TenantHeader, "authorization"}

\* What a present header may carry: one value or two.
HeaderValues == {<<<<"a">>>>, <<<<"b", "2">>, <<"a">>>>}

IncomingMDs ==
    UNION {[present -> HeaderValues] : present \in SUBSET IncomingHeaders}

IncomingContexts ==
    {[tenantID |-> t, hasMD |-> TRUE, md |-> m] : t \in ContextTenantIds, m \in IncomingMDs}
    \cup {[tenantID |-> t, hasMD |-> FALSE, md |-> <<>>] : t \in ContextTenantIds}

\* ModuleClient.ExportBackup under a request context: the dial, the outgoing
\* metadata of the call, the call.  sent is the metadata the module receives;
\* nothing is sent when the dial fails.
ModuleExportCall ==
    /\ cfb.pc = "idle"
    /\ UNCHANGED run
    /\ \E ctx \in IncomingContexts, target \in Targets, env \in FillEnvs :
         /\ ret' = [op |-> "ModuleClient.ExportBackup", ctx |-> ctx, target |-> target,
                    invoked |-> ~env.dialErr,
                    sent |-> IF env.dialErr THEN <<>> ELSE forwardMetadata(ctx),
                    err |-> ExportBackup(target, env).err]
         /\ UNCHANGED <<modules, full, nextId, cfb, saved>>

\* ModuleClient.ImportBackup under a request context.
ModuleImportCall ==
    /\ cfb.pc = "idle"
    /\ UNCHANGED run
    /\ \E ctx \in IncomingContexts, target \in Targets, env \in ImportEnvs :
         /\ ret' = [op |-> "ModuleClient.ImportBackup", ctx |-> ctx, target |-> target,
                    invoked |-> ~env.dialErr,
                    sent |-> IF env.dialErr THEN <<>> ELSE forwardMetadata(ctx),
                    err |-> ImportBackup(target, <<7>>, env).err]
         /\ UNCHANGED <<modules, full, nextId, cfb, saved>>

\* One call of the module client.
NextForward ==
    \/ ret.op = "none" /\ ModuleExportCall
    \/ ret.op = "none" /\ ModuleImportCall

SpecForward == InitLast /\ [][NextForward]_vars

RECURSIVE ParseDecimal(_)
\* The number a sequence of digit characters denotes.
ParseDecimal(text) ==
    IF Len(text) = 0 THEN 0
    ELSE LET last == text[Len(text)]
             d == CHOOSE v \in 0..9 : Digits[v + 1] = last
         IN  10 * ParseDecimal(SubSeq(text, 1, Len(text) - 1)) + d

\* text is the decimal string of n: digits only, no leading zero, value n.
IsDecimalOf(text, n) ==
    /\ Len(text) >= 1
    /\ \A i \in 1..Len(text) : \E v \in 0..9 : Digits[v + 1] = text[i]
    /\ (Len(text) > 1 => text[1] # "0")
    /\ ParseDecimal(text) = n

\* A module client call has been invoked with outgoing metadata.
ForwardedCall ==
    /\ ret.op \in {"ModuleClient.ExportBackup", "ModuleClient.ImportBackup"}
    /\ ret.invoked

\* C28: the metadata of every invoked ExportBackup and ImportBackup call has
\* x-md-global-tenant-id with the one value that is the decimal string of the
\* incoming tenant id; each of x-md-global-user-id, x-md-global-username and
\* x-md-global-roles with the first incoming value alone when the incoming
\* context has the key, and not at all otherwise; and no other header.
C28_ForwardedMetadata ==
    ForwardedCall =>
        LET forwarded == {ForwardedKeys[i] : i \in 1..Len(ForwardedKeys)}
            incoming == IF ret.ctx.hasMD THEN ret.ctx.md ELSE <<>>
        IN  /\ TenantHeader \in DOMAIN ret.sent
            /\ Len(ret.sent[TenantHeader]) = 1
            /\ IsDecimalOf(ret.sent[TenantHeader][1], ret.ctx.tenantID)
            /\ \A k \in forwarded :
                 IF k \in DOMAIN incoming
                 THEN k \in DOMAIN ret.sent /\ ret.sent[k] = <<incoming[k][1]>>
                 ELSE k \notin DOMAIN ret.sent
            /\ DOMAIN ret.sent \subseteq forwarded \cup {TenantHeader}

\* An ImportBackup call went out for a caller of tenant 1090 who sent two
\* values for the roles, a tenant header of its own and an authorization header.
C28_Witness ==
    /\ ForwardedCall
    /\ ret.op = "ModuleClient.ImportBackup"
    /\ ret.ctx.tenantID = 1090
    /\ ret.ctx.hasMD
    /\ {"x-md-global-roles", "authorization", TenantHeader} \subseteq DOMAIN ret.ctx.md
    /\ "x-md-global-username" \notin DOMAIN ret.ctx.md
    /\ Len(ret.ctx.md["x-md-global-roles"]) = 2
    /\ ret.sent[TenantHeader] = <<<<"1", "0", "9", "0">>>>

\* The export tasks of the call in flight that have ended, as a set.
Ended(call) == {call.finished[k] : k \in 1..Len(call.finished)}

\* C29: CreateFullBackup runs exactly one export per target; while an export
\* has not ended nothing is saved, nothing is returned and the results of the
\* other tasks are left alone; and the call returns with the result of every
\* target's export, whatever the other exports did.
C29_WaitsForEveryExport ==
    /\ [][(cfb.pc = "exporting" /\ Len(cfb.finished) < Len(cfb.req.Targets))
             => /\ cfb'.pc = "exporting"
                /\ UNCHANGED <<modules, full, saved, ret>>
                /\ Len(cfb'.finished) = Len(cfb.finished) + 1
                /\ \E idx \in 1..Len(cfb.req.Targets) \ Ended(cfb) :
                     /\ cfb'.finished = Append(cfb.finished, idx)
                     /\ cfb'.results[idx].set
                     /\ cfb'.results[idx].target = cfb.req.Targets[idx]
                     /\ \A j \in 1..Len(cfb.req.Targets) \ {idx} :
                          cfb'.results[j] = cfb.results[j]]_vars
    /\ [][(ret'.op = "CreateFullBackup" /\ ret' # ret /\ Len(ret'.req.Targets) > 0)
             => /\ cfb.pc = "exporting"
                /\ ret'.results = cfb.results
                /\ Len(ret'.finished) = Len(ret'.req.Targets)
                /\ {ret'.finished[k] : k \in 1..Len(ret'.finished)}
                     = 1..Len(ret'.req.Targets)
                /\ \A i \in 1..Len(ret'.req.Targets) :
                     /\ ret'.results[i].set
                     /\ ret'.results[i].target = ret'.req.Targets[i]]_vars

\* A call has returned whose first export failed first and whose second
\* export then ran to its end and delivered its payload.
C29_Witness ==
    /\ ret.op = "CreateFullBackup"
    /\ Len(ret.req.Targets) = 2
    /\ ret.finished = <<1, 2>>
    /\ ret.results[1].err # NoErr
    /\ ret.results[2].err = NoErr
    /\ ret.results[2].data # <<>>
    /\ ret.err = NoErr

\* ---------------------------------------------------------------- cancellation
\* The CreateFullBackup requests of a client that sets no password.
PlainFullRequests == {r \in CreateFullBackupRequests : r.Password = ""}

\* A client that finds the completed module backups of earlier calls in the
\* store and has the last id left to mint.
InitCancel ==
    /\ InitFrame
    /\ \A id \in BackupIds : id < MaxBackups => saved[id].kind = "module"

\* An export call delivers one fixed payload or fails in conn.Invoke.
CancelEnvs == {e \in ExportEnvs : e.invokeErr \/ e.data = <<7>>}

\* A CreateFullBackup call on such a store, whose caller may cancel it while
\* exports are in flight.
NextCancel ==
    \/ CreateFullBackupStartFrom(PlainFullRequests)
    \/ CancelRequest
    \/ ExportTaskFrom(CancelEnvs)
    \/ CreateFullBackupFinishFrom({"none", "manifest"})

\* Every conn.Invoke returns (on cancellation, or after its 30 s timeout at the
\* latest), and the handler runs on once wg.Wait() lets it.
SpecCancel ==
    /\ InitCancel
    /\ [][NextCancel]_vars
    /\ WF_vars(ExportTaskFrom(CancelEnvs))
    /\ WF_vars(CreateFullBackupFinishFrom({"none", "manifest"}))

\* The call in flight has been cancelled.
CancelledInFlight == cfb.pc = "exporting" /\ cfb.cancelled

\* C30: once the request context of a CreateFullBackup call is cancelled, every
\* export still in flight ends with a failure, the call returns only after all
\* its exports have ended, it does return, and no step of the cancelled call
\* removes or changes what earlier calls stored.
C30_CancelledCallDrains ==
    /\ [][CancelledInFlight
            => /\ \A idx \in Ended(cfb') \ Ended(cfb) : cfb'.results[idx].err # NoErr
               /\ (cfb'.pc = "idle"
                     => /\ Ended(cfb) = 1..Len(cfb.req.Targets)
                        /\ ret'.op = "CreateFullBackup"
                        /\ ret'.cancelled
                        /\ ret'.results = cfb.results)
               /\ modules' = modules
               /\ \A id \in BackupIds \ {cfb.backupID} : full'[id] = full[id]]_vars
    /\ CancelledInFlight ~> (cfb.pc = "idle" /\ ret.op = "CreateFullBackup" /\ ret.cancelled)

\* A call has returned that was cancelled after its first export had delivered
\* its payload: the second export failed, and the backup of an earlier call is
\* still in the store.
C30_Witness ==
    /\ ret.op = "CreateFullBackup"
    /\ ret.cancelled
    /\ Len(ret.req.Targets) = 2
    /\ ret.finished = <<1, 2>>
    /\ ret.results[1].err = NoErr
    /\ ret.results[2].err # NoErr
    /\ cfb.pc = "idle"
    /\ \E o \in BackupIds : o < MaxBackups /\ (modules[o].exists \/ full[o].exists)

\* ---------------------------------------------------------------- RestoreFullBackup, step by step
\* run.rfb follows one RestoreFullBackup call through its loop: i is the next
\* manifest entry, sent the ImportBackup calls made so far (for which entry,
\* to which target, with which data), inflight the entries whose call has not
\* returned.

\* Mutant: the import is handed to a task and the loop goes on.
MayAdvanceAsync(call) == TRUE

\* resp, err := s.moduleClient.ImportBackup(...) is a plain call: the loop
\* body goes on when it has returned.
MayAdvance(call) == call.inflight = {}

\* Mutant: entries of every status are restored.
SkippedNever(mb) == FALSE

\* if mb.Status != "completed" { continue }
Skipped(mb) == mb.Status # "completed"

\* Entry: the argument check and the manifest read.
RfbBeginFrom(requests) ==
    /\ cfb.pc = "idle"
    /\ run.rfb.pc = "idle"
    /\ \E req \in requests :
         LET got == GetFullBackup(full, req.BackupId)
         IN  IF Len(req.Targets) = 0
             THEN /\ ret' = [op |-> "RestoreFullBackup", req |-> req,
                             err |-> <<"at least one target is required">>,
                             resp |-> <<>>, imports |-> <<>>]
                  /\ UNCHANGED run
             ELSE IF got.err # NoErr
             THEN /\ ret' = [op |-> "RestoreFullBackup", req |-> req,
                             err |-> Wrap("get full backup", got.err),
                             resp |-> <<>>, imports |-> <<>>]
                  /\ UNCHANGED run
             ELSE /\ run' = [run EXCEPT !.rfb =
                               [pc |-> "loop", req |-> req,
                                entries |-> got.info.ModuleBackups, i |-> 1,
                                moduleResults |-> <<>>, allSuccess |-> TRUE,
                                inflight |-> {}, sent |-> <<>>, imports |-> <<>>]]
                  /\ ret' = [op |-> "none"]
    /\ UNCHANGED <<modules, full, nextId, cfb, saved>>

\* The loop body for entry i up to the ImportBackup call.
RfbEntry ==
    /\ cfb.pc = "idle"
    /\ run.rfb.pc = "loop"
    /\ run.rfb.i <= Len(run.rfb.entries)
    /\ MayAdvance(run.rfb)
    /\ LET r == run.rfb
           mb == r.entries[r.i]
           targetMap == TargetMap(r.req.Targets)
           load == LoadFullBackupModuleData(full, r.req.BackupId, mb.ModuleId,
                                            r.req.Password)
       IN  run' = [run EXCEPT !.rfb =
              IF Skipped(mb)
              THEN [r EXCEPT !.i = @ + 1]
              ELSE IF mb.ModuleId \notin DOMAIN targetMap
              THEN [r EXCEPT
                      !.i = @ + 1,
                      !.moduleResults = Append(@, ModuleRestoreResult(mb.ModuleId, FALSE,
                                  <<"no target endpoint provided for this module">>)),
                      !.allSuccess = FALSE]
              ELSE IF load.err # NoErr
              THEN [r EXCEPT
                      !.i = @ + 1,
                      !.moduleResults = Append(@, ModuleRestoreResult(mb.ModuleId, FALSE,
                                                      Wrap("load data", load.err))),
                      !.allSuccess = FALSE]
              ELSE [r EXCEPT
                      !.i = @ + 1,
                      !.inflight = @ \cup {r.i},
                      !.sent = Append(@, [entry |-> r.i,
                                          target |-> targetMap[mb.ModuleId],
                                          data |-> load.data])]]
    /\ UNCHANGED <<modules, full, nextId, cfb, ret, saved>>

\* An ImportBackup call returns and the loop body records its outcome.
RfbImportReturn ==
    /\ cfb.pc = "idle"
    /\ run.rfb.pc = "loop"
    /\ \E idx \in run.rfb.inflight, env \in ImportEnvs :
         LET r == run.rfb
             mb == r.entries[idx]
             call == r.sent[CHOOSE c \in 1..Len(r.sent) : r.sent[c].entry = idx]
             imp == ImportBackup(call.target, call.data, env)
         IN  run' = [run EXCEPT !.rfb =
                [r EXCEPT
                   !.inflight = @ \ {idx},
                   !.imports = Append(@, ImportCall(call.target, call.data, imp)),
                   !.moduleResults =
                       Append(@, IF imp.err # NoErr
                                 THEN ModuleRestoreResult(mb.ModuleId, FALSE, imp.err)
                                 ELSE ModuleRestoreResult(mb.ModuleId, imp.resp.Success,
                                                          NoErr)),
                   !.allSuccess = IF imp.err # NoErr THEN FALSE ELSE @]]
    /\ UNCHANGED <<modules, full, nextId, cfb, ret, saved>>

\* The loop is over: the response.
RfbEnd ==
    /\ cfb.pc = "idle"
    /\ run.rfb.pc = "loop"
    /\ run.rfb.i > Len(run.rfb.entries)
    /\ run.rfb.inflight = {}
    /\ ret' = [op |-> "RestoreFullBackup", req |-> run.rfb.req, err |-> NoErr,
               resp |-> [Success |-> run.rfb.allSuccess,
                         ModuleResults |-> run.rfb.moduleResults],
               imports |-> run.rfb.imports]
    /\ run' = [run EXCEPT !.rfb = IdleRfb]
    /\ UNCHANGED <<modules, full, nextId, cfb, saved>>

\* One RestoreFullBackup call on a store that holds one backup.
NextSerial ==
    \/ ret.op = "none" /\ RfbBeginFrom(RestoreFullBackupRequests)
    \/ RfbEntry
    \/ RfbImportReturn
    \/ RfbEnd

SpecSerial == InitRestore /\ [][NextSerial]_vars

\* The ImportBackup calls of the restore call that have not returned.
ImportsInFlight == IF run.rfb.pc = "loop" THEN run.rfb.inflight ELSE {}

\* C31: within one RestoreFullBackup call at most one ImportBackup call is in
\* flight at any time, and an import starts only when none is in flight.
C31_ImportsAreSerial ==
    /\ [](Cardinality(ImportsInFlight) <= 1)
    /\ [][(run'.rfb.pc = "loop" /\ run.rfb.pc = "loop"
             /\ run'.rfb.inflight \ run.rfb.inflight # {})
            => /\ run.rfb.inflight = {}
               /\ Len(run.rfb.imports) = Len(run.rfb.sent)]_vars

\* The import for the second manifest module is in flight after the import
\* for the first one has returned.
C31_Witness ==
    /\ ImportsInFlight = {2}
    /\ Len(run.rfb.imports) = 1
    /\ Len(run.rfb.sent) = 2

\* ---------------------------------------------------------------- metadata decoding
\* Longest metadata text followed key by key.
MaxTokens == 3

\* The "key": value pairs a metadata text is made of: canonical and legacy
\* spellings of three fields, a key no field has, and a cut-off stretch.
MetadataTokens ==
    {[key |-> "id", form |-> "scalar", val |-> 1],
     [key |-> "moduleId", form |-> "scalar", val |-> "A"],
     [key |-> "module_id", form |-> "scalar", val |-> "B"],
     [key |-> "createdAt", form |-> "rfc3339", val |-> 1],
     [key |-> "created_at", form |-> "rfc3339", val |-> 2],
     [key |-> "created_at", form |-> "object", val |-> 3],
     [key |-> "extra", form |-> "scalar", val |-> "x"],
     [key |-> "", form |-> "garbage", val |-> ""]}

MetadataTexts == UNION {[1..n -> MetadataTokens] : n \in 0..MaxTokens}

\* A store whose one module backup has a metadata file with that text.
InitDecode ==
    /\ nextId = MaxBackups + 1
    /\ cfb = IdleCfb
    /\ ret = [op |-> "none"]
    /\ run = IdleRun
    /\ full = EmptyStore
    /\ saved = [id \in BackupIds |-> NoSaved]
    /\ \E tokens \in MetadataTexts :
         modules = [EmptyStore EXCEPT
                      ![1] = WriteFile(WriteFile(MkdirAll(NoDir), "metadata.json",
                                                 [kind |-> "text", tokens |-> tokens]),
                                       ModulePayloadName(FALSE), gzipCompress(<<7>>))]

\* GetModuleBackup of an id, with the decoder's steps noted.
GetModuleBackupCall ==
    /\ cfb.pc = "idle"
    /\ UNCHANGED run
    /\ \E id \in BackupIds :
         /\ ret' = [op |-> "GetModuleBackup", id |-> id,
                    out |-> GetModuleBackup(modules, id),
                    decode |-> IF HasFile(modules[id], "metadata.json")
                               THEN unmarshalText(modules[id].files["metadata.json"].tokens,
                                                  ZeroBackupInfo)
                               ELSE <<>>]
    /\ UNCHANGED <<modules, full, nextId, cfb, saved>>

\* ListModuleBackups with no filter over the same store.
ListModuleBackupsCall ==
    /\ cfb.pc = "idle"
    /\ UNCHANGED run
    /\ ret' = [op |-> "ListModuleBackups", out |-> ListModuleBackups(modules, "", NilTenant, FALSE)]
    /\ UNCHANGED <<modules, full, nextId, cfb, saved>>

NextDecode ==
    \/ ret.op = "none" /\ GetModuleBackupCall
    \/ ret.op = "none" /\ ListModuleBackupsCall

SpecDecode == InitDecode /\ [][NextDecode]_vars

\* A GetModuleBackup call has read a metadata file.
Decoded == ret.op = "GetModuleBackup" /\ ret.decode # <<>>

\* C35: the canonical parse runs first and the legacy parse only after it
\* failed; a value the legacy parse produced is what the legacy parse makes of
\* an empty message; when both fail the read returns an unmarshal error and
\* no record.
C35_CanonicalThenLegacy ==
    Decoded =>
      LET dec == ret.decode
          text == modules[ret.id].files["metadata.json"].tokens
      IN  /\ dec.attempts[1] = "protojson"
          /\ (Len(dec.attempts) = 1) = (dec.canonical.err = NoErr)
          /\ Len(dec.attempts) = 1 => ret.out = [err |-> NoErr, info |-> dec.canonical.msg]
          /\ Len(dec.attempts) = 2 =>
               /\ dec.attempts[2] = "json"
               /\ dec.err = NoErr =>
                    /\ dec.msg = jsonFold(text, ZeroBackupInfo, Len(text)).msg
                    /\ ret.out = [err |-> NoErr, info |-> dec.msg]
               /\ dec.err # NoErr =>
                    /\ ret.out.info = <<>>
                    /\ ret.out.err[1] = "unmarshal metadata"
                    /\ ret.out.err[2] = "unmarshal (both protojson and json failed)"

\* A legacy text was read after the canonical attempt had stored a field the
\* legacy text does not hold.
C35_Witness ==
    /\ Decoded
    /\ Len(ret.decode.attempts) = 2
    /\ ret.decode.err = NoErr
    /\ ret.decode.canonical.msg.ModuleId = "A"
    /\ ret.out.err = NoErr
    /\ ret.out.info.ModuleId = ""
    /\ ret.out.info.CreatedAt = 3

\* ---------------------------------------------------------------- torn saves
\* A SaveModuleBackup stopped between its two writes: the metadata file is
\* whole and the payload file is missing or cut short.
TornModuleSave(id) ==
    /\ HasFile(modules[id], "metadata.json")
    /\ modules[id].files["metadata.json"] # TornFile
    /\ ModulePayloadLength(modules[id]) = -1

\* The ids ListModuleBackups returns with status completed, no filter given.
ListedCompleted ==
    LET out == ListModuleBackups(modules, "", NilTenant, FALSE)
    IN  {out.backups[k].Id : k \in {j \in 1..Len(out.backups) :
                                       out.backups[j].Status = "completed"}}

\* C33 (as claimed): after a SaveModuleBackup that stopped after its metadata
\* write and before its payload write completed, ListModuleBackups skips the
\* entry and does not return it as a completed backup.
C33_TornSaveSkippedByList ==
    \A id \in BackupIds : TornModuleSave(id) => id \notin ListedCompleted

\* ---------------------------------------------------------------- repeated moduleIds
RECURSIVE StoredPayloadBytes(_, _, _)
\* The total decoded size of the payload files of the moduleIds ms in a full
\* backup's directory, read with the backup's password.
StoredPayloadBytes(id, password, ms) ==
    IF ms = {} THEN 0
    ELSE LET m == CHOOSE x \in ms : TRUE
             load == LoadFullBackupModuleData(full, id, m, password)
         IN  (IF load.err = NoErr THEN Len(load.data) ELSE 0)
               + StoredPayloadBytes(id, password, ms \ {m})

\* C36 (as claimed): after a successful CreateFullBackup, also one whose target
\* list names a moduleId more than once, every completed entry has a stored
\* payload that decodes to the data exported for that entry's target, of the
\* entry's sizeBytes, and totalSizeBytes is the total decoded size of the
\* payload files of the backup's directory.
C36_EntriesMatchStoredPayloads ==
    CfbOk =>
        LET info == ret.resp.Backup
            id == info.Id
        IN  /\ \A i \in EntriesWith(info, "completed") :
                 LET load == LoadFullBackupModuleData(full, id, info.ModuleBackups[i].ModuleId,
                                                      ret.req.Password)
                 IN  /\ load.err = NoErr
                     /\ load.data = ret.results[i].data
                     /\ Len(load.data) = info.ModuleBackups[i].SizeBytes
            /\ info.TotalSizeBytes = StoredPayloadBytes(id, ret.req.Password, ModuleIds)

\* ---------------------------------------------------------------- what a restore imports
\* The ImportBackup calls the followed RestoreFullBackup call has made.
ImportsSent == IF run.rfb.pc = "loop" THEN run.rfb.sent ELSE <<>>

\* C38: RestoreFullBackup calls ImportBackup only for manifest entries that
\* are completed, have a target in the request and whose payload loaded, at
\* most once per entry; every module contacted is that of a completed entry,
\* and the data it is sent is the payload stored under its moduleId.
C38_ImportsOnlyLoadedCompletedEntries ==
    \A c \in 1..Len(ImportsSent) :
        LET call == ImportsSent[c]
            req == run.rfb.req
            mb == run.rfb.entries[call.entry]
            load == LoadFullBackupModuleData(full, req.BackupId, call.target.ModuleId,
                                             req.Password)
        IN  /\ mb.Status = "completed"
            /\ call.target.ModuleId = mb.ModuleId
            /\ \E j \in 1..Len(req.Targets) : req.Targets[j] = call.target
            /\ load.err = NoErr
            /\ call.data = load.data
            /\ \A d \in 1..Len(ImportsSent) : ImportsSent[d].entry = call.entry => d = c

\* Of a manifest with a completed, a failed and an untargeted module, the
\* restore has called the one completed module that has a target.
C38_Witness ==
    /\ Len(ImportsSent) = 1
    /\ run.rfb.i > Len(run.rfb.entries)
    /\ Len(run.rfb.entries) = 2
    /\ \E k \in 1..2 : run.rfb.entries[k].Status # "completed"
    /\ Len(run.rfb.req.Targets) = 2

\* ---------------------------------------------------------------- calls in steps
\* run.procs follows client calls statement by statement.  A program is the
\* sequence of a call's statements that touch the mutex, the disk or a module;
\* fail is where the call goes on when the statement leaves an error (the
\* deferred statements of an early return), 0 when it goes on regardless.
St(s, fail) == [s |-> s, fail |-> fail]

SaveModuleBackupProgram ==
    <<St("lock", 0), St("mkdir", 0), St("writeMeta", 0), St("writePayload", 0),
      St("unlock", 0)>>

SaveFullBackupProgram ==
    <<St("lock", 0), St("mkdir", 0), St("writePayloads", 0), St("writeManifest", 0),
      St("unlock", 0)>>

\* Mutant: the directory is looked up before the mutex is taken.
DeleteModuleBackupProgramStatFirst ==
    <<St("stat", 5), St("lock", 0), St("removeAll", 0), St("unlock", 0)>>

DeleteModuleBackupProgram ==
    <<St("lock", 0), St("stat", 4), St("removeAll", 0), St("unlock", 0)>>

DeleteFullBackupProgram ==
    <<St("lock", 0), St("stat", 4), St("removeAll", 0), St("unlock", 0)>>

\* GetModuleBackup and GetFullBackup
GetBackupProgram == <<St("rlock", 0), St("readMeta", 0), St("runlock", 0)>>

ListModuleBackupsProgram ==
    <<St("rlock", 0), St("readDir", 0), St("readMetas", 0), St("runlock", 0)>>

\* Mutant: the payload is read without the mutex.
LoadBackupDataProgramUnlocked == <<St("statEnc", 3), St("readPayload", 0)>>

\* LoadModuleBackupData and LoadFullBackupModuleData
LoadBackupDataProgram ==
    <<St("rlock", 0), St("statEnc", 4), St("readPayload", 0), St("runlock", 0)>>

\* Mutant: the connection stays open when the invocation fails.
CallProgramLeaking ==
    <<St("dial", 5), St("invoke", 0), St("return", 5), St("close", 0)>>

\* ExportBackup and ImportBackup: dialModule, conn.Invoke until it returns,
\* and the deferred cleanup; a failed dial returns before the defer.
CallProgram ==
    <<St("dial", 5), St("invoke", 0), St("return", 0), St("close", 0)>>

\* Mutant: the export is made inside the save's critical section.
CreateModuleBackupProgramLocked ==
    <<St("lock", 0), St("export", 6), St("mkdir", 0), St("writeMeta", 0),
      St("writePayload", 0), St("unlock", 0)>>

\* ExportBackup, then SaveModuleBackup unless the export failed.
CreateModuleBackupProgram == <<St("export", 7)>> \o SaveModuleBackupProgram

\* The exports of all targets, wg.Wait(), then SaveFullBackup.
CreateFullBackupProgram == <<St("export", 0)>> \o SaveFullBackupProgram

\* LoadModuleBackupData, then ImportBackup unless the load failed.
RestoreModuleBackupProgram ==
    <<St("rlock", 0), St("statEnc", 4), St("readPayload", 0), St("runlock", 6),
      St("import", 0)>>

RECURSIVE RestoreEntryBlocks(_)
\* The loop body of RestoreFullBackup for the first n completed entries:
\* LoadFullBackupModuleData, then ImportBackup unless the load failed.
RestoreEntryBlocks(n) ==
    IF n = 0 THEN <<>>
    ELSE LET base == 3 + 5 * (n - 1)
         IN  RestoreEntryBlocks(n - 1) \o
             <<St("rlock", 0), St("statEnc", base + 4), St("readPayload", 0),
               St("runlock", base + 6), St("import", 0)>>

\* GetFullBackup, then the loop over the n completed entries of the manifest.
RestoreFullBackupProgram(n) ==
    <<St("rlock", 0), St("readMeta", 0), St("runlock", 4 + 5 * n)>> \o RestoreEntryBlocks(n)

Program(proc) ==
    CASE proc.op = "SaveModuleBackup" -> SaveModuleBackupProgram
      [] proc.op = "SaveFullBackup" -> SaveFullBackupProgram
      [] proc.op = "DeleteModuleBackup" -> DeleteModuleBackupProgram
      [] proc.op = "DeleteFullBackup" -> DeleteFullBackupProgram
      [] proc.op \in {"GetModuleBackup", "GetFullBackup"} -> GetBackupProgram
      [] proc.op = "ListModuleBackups" -> ListModuleBackupsProgram
      [] proc.op \in {"LoadModuleBackupData", "LoadFullBackupModuleData"} ->
              LoadBackupDataProgram
      [] proc.op = "CreateModuleBackup" -> CreateModuleBackupProgram
      [] proc.op = "CreateFullBackup" -> CreateFullBackupProgram
      [] proc.op = "RestoreModuleBackup" -> RestoreModuleBackupProgram
      [] proc.op = "RestoreFullBackup" -> RestoreFullBackupProgram(Len(proc.entries))
      [] OTHER -> <<>>

\* The operations on full/<id>; the others work on modules/<id>.
FullOps ==
    {"SaveFullBackup", "DeleteFullBackup", "GetFullBackup", "LoadFullBackupModuleData",
     "CreateFullBackup", "RestoreFullBackup"}

\* The operations that mint the id they write under.
MintingOps == {"SaveModuleBackup", "SaveFullBackup", "CreateModuleBackup", "CreateFullBackup"}

WriteStatements == {"mkdir", "writeMeta", "writePayload", "writePayloads", "writeManifest",
                    "removeAll"}

ReadStatements == {"stat", "readMeta", "readDir", "readMetas", "statEnc", "readPayload"}

\* The call is at a statement of its program.
Active(proc) == proc.op # "none" /\ proc.pc <= Len(Program(proc))

\* The call has returned.
Returned(proc) == proc.op # "none" /\ proc.pc > Len(Program(proc))

\* The statement the call is at.
Stmt(proc) == IF Active(proc) THEN Program(proc)[proc.pc] ELSE St("none", 0)

\* Where the call goes on after statement st left it as proc.
GoOn(proc, st) ==
    [proc EXCEPT !.pc = IF proc.err # NoErr /\ st.fail # 0 THEN st.fail ELSE @ + 1]

\* The k-th target of a request: the modules in turn.
TargetAt(k) ==
    LET m == IF k % 2 = 1 THEN "A" ELSE "B"
    IN  [ModuleId |-> m, GrpcEndpoint |-> m \o ":7000"]

\* What the call's exports brought back: each module answers with one payload.
ExportResults(proc) ==
    [k \in 1..Len(proc.ok) |->
        ModuleResult(TargetAt(k),
                     [err |-> proc.ok[k],
                      data |-> IF proc.ok[k] = NoErr THEN <<7>> ELSE <<>>,
                      tenantId |-> 0])]

\* The directory the save of the call leaves when it is through.
SavedDir(proc, store) ==
    IF proc.op \in FullOps
    THEN CreateFullBackupFinishHandler(
             store, [Targets |-> [k \in 1..Len(proc.ok) |-> TargetAt(k)], Password |-> "",
                     TenantId |-> NilTenant],
             proc.id, 1, ExportResults(proc), [m \in ModuleIds |-> "s1"],
             [at |-> "none", torn |-> FALSE, failing |-> "", written |-> {}]).store[proc.id]
    ELSE SaveModuleBackup(store, Stamped(BackupInfo(proc.id, "A", "completed", 1, <<>>), 1),
                          <<7>>, "", "s1", NoFault).store[proc.id]

\* The module whose payload the call loads: that of the manifest entry the
\* restore loop is at, or the first module.
LoadedModule(proc) ==
    IF proc.op = "RestoreFullBackup"
    THEN proc.entries[((proc.pc - 4) \div 5) + 1].ModuleId
    ELSE "A"

\* One filesystem statement of a call on its store: [store, proc].
FsStatement(proc, st, store) ==
    LET id == proc.id
        dir == store[id]
        final == SavedDir(proc, store)
        isFull == proc.op \in FullOps
        meta == IF isFull THEN GetFullBackup(store, id) ELSE GetModuleBackup(store, id)
        encPath == IF isFull THEN FullPayloadName(LoadedModule(proc), TRUE)
                   ELSE ModulePayloadName(TRUE)
        plainPath == IF isFull THEN FullPayloadName(LoadedModule(proc), FALSE)
                     ELSE ModulePayloadName(FALSE)
        Completed(mb) == mb.Status = "completed"
    IN  CASE st.s = "mkdir" ->
               [store |-> [store EXCEPT ![id] = MkdirAll(dir)], proc |-> proc]
          [] st.s \in {"writeMeta", "writeManifest"} ->
               [store |-> [store EXCEPT ![id] =
                              WriteFile(dir, "metadata.json", final.files["metadata.json"])],
                proc |-> proc]
          [] st.s = "writePayload" ->
               [store |-> [store EXCEPT ![id] =
                              WriteFile(dir, plainPath, final.files[plainPath])],
                proc |-> proc]
          [] st.s = "writePayloads" ->
               [store |-> [store EXCEPT ![id].files =
                              [n \in (DOMAIN final.files \ {"metadata.json"}) \cup DOMAIN @
                                 |-> IF n \in DOMAIN final.files \ {"metadata.json"}
                                     THEN final.files[n] ELSE @[n]]],
                proc |-> proc]
          [] st.s = "stat" ->
               [store |-> store,
                proc |-> [proc EXCEPT !.err = IF dir.exists THEN NoErr
                                              ELSE IF isFull
                                              THEN <<"full backup not found">>
                                              ELSE <<"backup not found">>]]
          [] st.s = "removeAll" ->
               [store |-> [store EXCEPT ![id] = NoDir], proc |-> proc]
          [] st.s = "readMeta" ->
               [store |-> store,
                proc |-> [proc EXCEPT
                            !.err = meta.err,
                            !.data = meta.info,
                            !.entries = IF proc.op = "RestoreFullBackup" /\ meta.err = NoErr
                                        THEN SelectSeq(meta.info.ModuleBackups, Completed)
                                        ELSE @]]
          [] st.s = "readDir" ->
               [store |-> store, proc |-> [proc EXCEPT !.data = ReadDir(store)]]
          [] st.s = "readMetas" ->
               [store |-> store,
                proc |-> [proc EXCEPT !.data =
                            LET Reads(i) == readModuleMetadata(store, i).err = NoErr
                                kept == SelectSeq(proc.data, Reads)
                            IN  SortByCreatedAtDesc(
                                    [k \in 1..Len(kept) |->
                                        readModuleMetadata(store, kept[k]).info])]]
          [] st.s = "statEnc" ->
               [store |-> store,
                proc |-> [proc EXCEPT !.err = IF HasFile(dir, encPath)
                                              THEN ErrPasswordRequired ELSE NoErr,
                                      !.data = <<>>]]
          [] st.s = "readPayload" ->
               [store |-> store,
                proc |-> IF ~HasFile(dir, plainPath)
                         THEN [proc EXCEPT !.err = <<"read backup data">>, !.data = <<>>]
                         ELSE [proc EXCEPT !.err = OpenPlain(dir.files[plainPath]).err,
                                           !.data = OpenPlain(dir.files[plainPath]).data]]

\* A client calls an operation of ops on a backup id; an operation that
\* creates a backup writes under the id uuid.New() gives it, a CreateFullBackup
\* names n targets.
StartFrom(callers, ops) ==
    /\ cfb.pc = "idle"
    /\ \E p \in callers, op \in ops, id \in BackupIds, n \in 1..MaxTargets :
         /\ run.procs[p].op = "none"
         /\ op \notin {"SaveFullBackup", "CreateFullBackup"} => n = 1
         /\ IF op \in MintingOps
            THEN /\ nextId <= MaxBackups
                 /\ id = uuidNew(nextId)
                 /\ nextId' = nextId + 1
            ELSE UNCHANGED nextId
         /\ run' = [run EXCEPT !.procs[p] =
                      [IdleProc EXCEPT !.op = op, !.id = id, !.pc = 1,
                                       !.ok = [k \in 1..n |-> NoErr]]]
    /\ UNCHANGED <<modules, full, cfb, ret, saved>>

\* s.mu.Lock() and s.mu.RLock(): a writer enters an unheld mutex, a reader
\* one that no writer holds.
Acquire ==
    /\ cfb.pc = "idle"
    /\ \E p \in Procs :
         LET proc == run.procs[p]
             st == Stmt(proc)
         IN  /\ st.s \in {"lock", "rlock"}
             /\ run.mu.writer = ""
             /\ st.s = "lock" => run.mu.readers = {}
             /\ run' = [run EXCEPT
                          !.mu = IF st.s = "lock" THEN [@ EXCEPT !.writer = p]
                                 ELSE [@ EXCEPT !.readers = @ \cup {p}],
                          !.procs[p] = [proc EXCEPT
                                          !.pc = @ + 1,
                                          !.held = IF st.s = "lock" THEN "w" ELSE "r",
                                          !.err = NoErr]]
    /\ UNCHANGED <<modules, full, nextId, cfb, ret, saved>>

\* The deferred s.mu.Unlock() and s.mu.RUnlock().
Release ==
    /\ cfb.pc = "idle"
    /\ \E p \in Procs :
         LET proc == run.procs[p]
             st == Stmt(proc)
         IN  /\ st.s \in {"unlock", "runlock"}
             /\ run' = [run EXCEPT
                          !.mu = IF st.s = "unlock" THEN [@ EXCEPT !.writer = ""]
                                 ELSE [@ EXCEPT !.readers = @ \ {p}],
                          !.procs[p] = GoOn([proc EXCEPT !.held = "none"], st)]
    /\ UNCHANGED <<modules, full, nextId, cfb, ret, saved>>

\* One os.* call of a storage operation.
FsAccess ==
    /\ cfb.pc = "idle"
    /\ \E p \in Procs :
         LET proc == run.procs[p]
             st == Stmt(proc)
             isFull == proc.op \in FullOps
         IN  /\ st.s \in WriteStatements \cup ReadStatements
             /\ \E out \in {FsStatement(proc, st, IF isFull THEN full ELSE modules)} :
                  /\ modules' = IF isFull THEN modules ELSE out.store
                  /\ full' = IF isFull THEN out.store ELSE full
                  /\ run' = [run EXCEPT !.procs[p] = GoOn(out.proc, st)]
    /\ UNCHANGED <<nextId, cfb, ret, saved>>

\* A module call that has been made and has done nothing yet.
NewTask == [pc |-> 1, conn |-> FALSE, rpc |-> FALSE, invoked |-> FALSE, err |-> NoErr]

\* The handler makes its module calls: one ExportBackup task per target, or
\* the one ImportBackup call.
CallStart ==
    /\ cfb.pc = "idle"
    /\ \E p \in Procs :
         LET proc == run.procs[p]
             st == Stmt(proc)
         IN  /\ st.s \in {"export", "import"}
             /\ proc.tasks = <<>>
             /\ run' = [run EXCEPT !.procs[p].tasks =
                          [k \in 1..(IF st.s = "export" THEN Len(proc.ok) ELSE 1)
                              |-> NewTask]]
    /\ UNCHANGED <<modules, full, nextId, cfb, ret, saved>>

\* The module call k of p is at statement s of its program.
TaskAt(p, k, s) ==
    /\ k \in DOMAIN run.procs[p].tasks
    /\ run.procs[p].tasks[k].pc <= Len(CallProgram)
    /\ CallProgram[run.procs[p].tasks[k].pc].s = s

\* The module call k of p becomes task and goes on.
TaskBecomes(p, k, task) ==
    /\ run' = [run EXCEPT !.procs[p].tasks[k] = GoOn(task, CallProgram[@.pc])]
    /\ UNCHANGED <<modules, full, nextId, cfb, ret, saved>>

\* dialModule: grpc.NewClient gives a connection or fails.
Dial ==
    /\ cfb.pc = "idle"
    /\ \E p \in Procs, k \in 1..MaxTargets, ok \in BOOLEAN :
         /\ TaskAt(p, k, "dial")
         /\ TaskBecomes(p, k, IF ok
                              THEN [run.procs[p].tasks[k] EXCEPT !.conn = TRUE]
                              ELSE [run.procs[p].tasks[k] EXCEPT !.err = <<"dial", "connect">>])

\* conn.Invoke(callCtx, ...) is sent.
Invoke ==
    /\ cfb.pc = "idle"
    /\ \E p \in Procs, k \in 1..MaxTargets :
         /\ TaskAt(p, k, "invoke")
         /\ TaskBecomes(p, k, [run.procs[p].tasks[k] EXCEPT !.rpc = TRUE, !.invoked = TRUE])

\* conn.Invoke returns: the module's answer, an rpc error, or the expiry of
\* the call's deadline.
InvokeReturn ==
    /\ cfb.pc = "idle"
    /\ \E p \in Procs, k \in 1..MaxTargets,
          e \in {NoErr, <<"invoke", "rpc error">>, <<"invoke", "deadline exceeded">>} :
         /\ TaskAt(p, k, "return")
         /\ TaskBecomes(p, k, [run.procs[p].tasks[k] EXCEPT !.rpc = FALSE, !.err = e])

\* The deferred cleanup(): conn.Close().
CloseConn ==
    /\ cfb.pc = "idle"
    /\ \E p \in Procs, k \in 1..MaxTargets :
         /\ TaskAt(p, k, "close")
         /\ TaskBecomes(p, k, [run.procs[p].tasks[k] EXCEPT !.conn = FALSE])

\* The module calls have returned to the handler (wg.Wait() for the exports
\* of a full backup): it goes on with their results.
CallWait ==
    /\ cfb.pc = "idle"
    /\ \E p \in Procs :
         LET proc == run.procs[p]
             st == Stmt(proc)
             errs == [k \in DOMAIN proc.tasks |-> proc.tasks[k].err]
             failed == \E k \in DOMAIN errs : errs[k] # NoErr
         IN  /\ st.s \in {"export", "import"}
             /\ proc.tasks # <<>>
             /\ \A k \in DOMAIN proc.tasks : proc.tasks[k].pc > Len(CallProgram)
             /\ run' = [run EXCEPT !.procs[p] =
                          GoOn([proc EXCEPT
                                  !.tasks = <<>>,
                                  !.ended = @ \o proc.tasks,
                                  !.ok = IF st.s = "export" THEN errs ELSE @,
                                  !.err = IF failed THEN errs[CHOOSE k \in DOMAIN errs :
                                                                errs[k] # NoErr]
                                          ELSE NoErr],
                               st)]
    /\ UNCHANGED <<modules, full, nextId, cfb, ret, saved>>

\* A store that holds one backup, a module backup or a full backup, saved
\* whole and without a password.
InitSteps ==
    /\ nextId = 2
    /\ cfb = IdleCfb
    /\ ret = [op |-> "none"]
    /\ run = IdleRun
    /\ \E s \in StoresAfter(1, {NilTenant}, {1}, FillEnvs) :
         /\ s.saved[1].kind # "none"
         /\ modules = s.modules
         /\ full = s.full
         /\ saved = s.saved

\* The operations of the store.
StorageOps ==
    {"SaveModuleBackup", "SaveFullBackup", "DeleteModuleBackup", "DeleteFullBackup",
     "GetModuleBackup", "GetFullBackup", "ListModuleBackups", "LoadModuleBackupData",
     "LoadFullBackupModuleData"}

\* Two clients call one storage operation each.
NextLock ==
    \/ StartFrom(Procs, StorageOps)
    \/ Acquire
    \/ Release
    \/ FsAccess

SpecLock == InitSteps /\ [][NextLock]_vars

\* ---------------------------------------------------------------- the store's mutex
\* The call is inside its critical section, in that mode.
InsideAs(p, mode) == run.procs[p].held = mode

\* Call p makes one filesystem access in this step.
Accesses(p, statements) ==
    /\ Stmt(run.procs[p]).s \in statements
    /\ run'.procs[p].pc # run.procs[p].pc

\* C32: while a Save or Delete is inside its critical section no other
\* operation is inside one, while reads may be inside theirs together; every
\* filesystem access of an operation is made under its hold of the mutex (the
\* write lock for a write), and once it lets go no access of it is left.
C32_ReaderWriterExclusion ==
    /\ [](\A p, q \in Procs :
            (p # q /\ InsideAs(p, "w")) => InsideAs(q, "none"))
    /\ [](\A p \in Procs :
            /\ InsideAs(p, "w") <=> run.mu.writer = p
            /\ InsideAs(p, "r") <=> p \in run.mu.readers)
    /\ [][\A p \in Procs :
            /\ Accesses(p, WriteStatements) => InsideAs(p, "w")
            /\ Accesses(p, ReadStatements) => ~InsideAs(p, "none")
            /\ (~InsideAs(p, "none") /\ run'.procs[p].held = "none")
                 => \A j \in run'.procs[p].pc..Len(Program(run.procs[p])) :
                       Program(run.procs[p])[j].s \notin WriteStatements \cup ReadStatements
          ]_vars

\* Two reads are inside their critical sections together: one has read the
\* metadata, the other is about to read the payload.
C32_Witness ==
    /\ InsideAs("p", "r")
    /\ InsideAs("q", "r")
    /\ run.procs["p"].op = "GetModuleBackup"
    /\ run.procs["p"].pc = 3
    /\ run.procs["q"].op = "LoadModuleBackupData"
    /\ run.procs["q"].pc = 3

\* ---------------------------------------------------------------- concurrent deletes and reads
\* The two calls are deletes of the one backup the store held at the start.
TwoDeletes(p, q) ==
    /\ p # q
    /\ run.procs[p].op \in {"DeleteModuleBackup", "DeleteFullBackup"}
    /\ run.procs[q].op = run.procs[p].op
    /\ run.procs[q].id = run.procs[p].id
    /\ saved[run.procs[p].id].kind =
          (IF run.procs[p].op = "DeleteFullBackup" THEN "full" ELSE "module")

\* Call q reads the backup that call p deletes.
DeleteAndRead(p, q) ==
    /\ run.procs[p].id = run.procs[q].id
    /\ \/ /\ run.procs[p].op = "DeleteModuleBackup"
          /\ run.procs[q].op \in {"GetModuleBackup", "LoadModuleBackupData"}
          /\ saved[run.procs[p].id].kind = "module"
       \/ /\ run.procs[p].op = "DeleteFullBackup"
          /\ run.procs[q].op \in {"GetFullBackup", "LoadFullBackupModuleData"}
          /\ saved[run.procs[p].id].kind = "full"

\* What the read returned is what the save of the backup was given.
ReadIsIntact(proc) ==
    LET was == saved[proc.id]
    IN  CASE proc.op = "LoadModuleBackupData" -> proc.data = was.data
          [] proc.op = "LoadFullBackupModuleData" ->
                "A" \in DOMAIN was.data /\ proc.data = was.data["A"]
          [] proc.op = "GetModuleBackup" ->
                /\ proc.data.Id = proc.id
                /\ proc.data.Status = "completed"
                /\ proc.data.SizeBytes = Len(was.data)
          [] proc.op = "GetFullBackup" ->
                /\ proc.data.Id = proc.id
                /\ Len(proc.data.ModuleBackups) = 1
                /\ proc.data.TotalSizeBytes =
                      (IF "A" \in DOMAIN was.data THEN Len(was.data["A"]) ELSE 0)

NotFoundErrors == {<<"backup not found">>, <<"full backup not found">>}

\* C39: of two concurrent deletes of one existing backup exactly one succeeds
\* and the other returns not-found; a Get or Load that runs concurrently with
\* a delete of its backup returns the backup whole or an error.
C39_ConcurrentDeleteOutcomes ==
    \A p, q \in Procs :
        /\ (TwoDeletes(p, q) /\ Returned(run.procs[p]) /\ Returned(run.procs[q]))
              => \/ /\ run.procs[p].err = NoErr
                    /\ run.procs[q].err \in NotFoundErrors
                 \/ /\ run.procs[q].err = NoErr
                    /\ run.procs[p].err \in NotFoundErrors
        /\ (DeleteAndRead(p, q) /\ Returned(run.procs[q]))
              => (run.procs[q].err # NoErr \/ ReadIsIntact(run.procs[q]))

\* One delete has removed the directory and still holds the mutex while the
\* other delete of the same backup waits for it.
C39_Witness ==
    /\ TwoDeletes("p", "q")
    /\ run.procs["p"].pc = 4
    /\ run.procs["p"].held = "w"
    /\ run.procs["q"].pc = 1

\* ---------------------------------------------------------------- module calls and the mutex
\* The handlers that call a module.
HandlerOps == {"CreateModuleBackup", "CreateFullBackup", "RestoreModuleBackup",
               "RestoreFullBackup"}

\* What another client does meanwhile.
ObserverOps == {"ListModuleBackups", "GetFullBackup", "DeleteModuleBackup", "SaveFullBackup"}

\* One client calls a handler that talks to modules while another client
\* lists, reads, deletes or saves.
NextRpc ==
    \/ StartFrom({"p"}, HandlerOps)
    \/ StartFrom({"q"}, ObserverOps)
    \/ Acquire
    \/ Release
    \/ FsAccess
    \/ CallStart
    \/ Dial
    \/ Invoke
    \/ InvokeReturn
    \/ CloseConn
    \/ CallWait

SpecRpc == InitSteps /\ [][NextRpc]_vars

\* The module calls of call p that are under way, and all it has made.
CallsUnderWay(p) == {run.procs[p].tasks[k] : k \in DOMAIN run.procs[p].tasks}

CallsReturned(p) == {run.procs[p].ended[k] : k \in DOMAIN run.procs[p].ended}

\* The connections to modules that are open.
OpenConnections ==
    {x \in Procs \X {"tasks", "ended"} \X (1..MaxTargets) :
        LET calls == IF x[2] = "tasks" THEN run.procs[x[1]].tasks
                     ELSE run.procs[x[1]].ended
        IN  x[3] \in DOMAIN calls /\ calls[x[3]].conn}

\* C34: a module call holds a connection only between its dial and its
\* return, on every path; a call whose dial failed invoked nothing and returns
\* a connection error; when no call is under way no connection is open, and
\* none is once CreateFullBackup has returned.
C34_ConnectionsClosed ==
    /\ \A p \in Procs :
         /\ \A t \in CallsUnderWay(p) :
              /\ t.conn => t.pc \in 2..4
              /\ t.rpc => t.conn
              /\ (t.err # NoErr /\ t.err[1] = "dial") => (~t.invoked /\ ~t.conn)
              /\ t.pc > Len(CallProgram) => ~t.conn
         /\ \A t \in CallsReturned(p) :
              /\ ~t.conn
              /\ ~t.rpc
              /\ t.invoked <=> (t.err = NoErr \/ t.err[1] = "invoke")
         /\ (Returned(run.procs[p]) /\ run.procs[p].op = "CreateFullBackup")
              => Len(run.procs[p].ended) = Len(run.procs[p].ok)
    /\ (\A p \in Procs : \A t \in CallsUnderWay(p) : t.pc > Len(CallProgram))
          => OpenConnections = {}

\* CreateFullBackup has returned after two exports, one of which failed in
\* its invocation and one in its dial, and no connection is open.
C34_Witness ==
    /\ Returned(run.procs["p"])
    /\ run.procs["p"].op = "CreateFullBackup"
    /\ Len(run.procs["p"].ended) = 2
    /\ run.procs["p"].ended[1].err = <<"invoke", "deadline exceeded">>
    /\ run.procs["p"].ended[2].err = <<"dial", "connect">>
    /\ OpenConnections = {}

\* C37: a call never holds the store's mutex while one of its module calls
\* is under way: the creates take the write lock only after all their exports
\* have returned, the restores have released the read lock before each
\* import; so while a module is slow to answer the mutex is free for others.
C37_NoLockAcrossModuleCall ==
    \A p \in Procs :
        /\ run.procs[p].tasks # <<>> => run.procs[p].held = "none"
        /\ (run.procs[p].held = "w" /\ run.procs[p].op \in HandlerOps)
              => /\ run.procs[p].tasks = <<>>
                 /\ Len(run.procs[p].ended) = Len(run.procs[p].ok)
        /\ (\E t \in CallsUnderWay(p) : t.rpc)
              => (run.mu.writer # p /\ p \notin run.mu.readers)

\* While the module of a restore has not answered, another client is inside
\* a save.
C37_Witness ==
    /\ run.procs["p"].op = "RestoreFullBackup"
    /\ \E t \in CallsUnderWay("p") : t.rpc
    /\ run.procs["q"].op = "SaveFullBackup"
    /\ run.procs["q"].held = "w"
    /\ run.procs["q"].pc = 4

====
